---- MODULE Spec2Model ----
(***************************************************************************)
(* A model of taiga-back's vote / watch subsystem (taiga.projects.votes,   *)
(* taiga.projects.notifications), of Membership validation and of the      *)
(* ProjectTemplate round trip (taiga.projects.models).                     *)
(*                                                                         *)
(* State machines that share the module:                                   *)
(*   Spec              the vote and watch resources, concurrent requests   *)
(*   SpecMembership    Membership.clean and the saving of memberships      *)
(*   SpecTemplate      ProjectTemplate.load_data_from_project and          *)
(*                     ProjectTemplate.apply_to_project                    *)
(*   SpecFavourites    the favourites feed                                 *)
(*   SpecPeople        related people and watchers                         *)
(*   SpecNotifications send_notifications                                  *)
(*   SpecSerializer    the watchers field of the serializer                *)
(*   SpecRolePoints    Project.update_role_points                          *)
(*   SpecReads         the voters and watchers views, with deletion        *)
(*   SpecDelete        vote and watch requests racing with deletion        *)
(*   SpecSlugs         Project.save and the slug of a project              *)
(***************************************************************************)
EXTENDS Integers, FiniteSets, Sequences, TLC

VARIABLES
    \* ---- the vote and watch stores (tables) ----
    votes_vote,        \* table votes_vote: <<ref, user>> -> how many Vote rows
    votes_votes,       \* table votes_votes: the set of <<ref, count>> rows
    watched,           \* <<ref, user>> -> how many Watched rows (tasks, stories, issues)
    notify_policies,   \* <<project ref, user>> -> notify level, or NoRow
    \* ---- the requests in flight ----
    pc,                \* per worker: where its handler stands
    req,               \* per worker: the request it serves
    tx,                \* per worker: the writes its open transaction has staged
    nreq,              \* requests received so far
    last,              \* the request answered last, with what a detail GET
                       \*   of its object showed its user before and after it
    \* ---- memberships ----
    memberships,       \* table projects_membership: records [id, user, project]
    mseq,              \* the id sequence of the table: the last id given
    mlast,             \* the last validation: what was validated and the result
    \* ---- projects, taxonomies, templates ----
    rows,              \* <<project, taxonomy>> -> the names of its rows
    defaults,          \* <<project, taxonomy>> -> name of the default row, or None
    default_owner,     \* <<project, taxonomy>> -> project of the default row, or None
    roles,             \* project -> the slugs of its roles, in order
    owner_role,        \* project -> slug of the owner's membership role, or None
    template,          \* the ProjectTemplate's fields, or NotLoaded
    tphase,            \* "build" | "loaded" | "applied" | "load_raised" | "apply_raised"
    traised,           \* the exception the last template call raised, or None
    pfields,           \* project -> its creation_template and module flag
    ttarget,           \* the project apply_to_project was called with, or None
    \* ---- the favourites feed: one project and the entities inside it ----
    fav_votes,         \* the Vote rows: pairs <<user, entity kind>>
    fav_watches,       \* the watches: pairs <<user, entity kind>>
    is_private,        \* project.is_private
    anon_permissions,  \* project.anon_permissions
    role_permissions,  \* user -> <<permissions of the membership's role>>, <<>> if none
    \* ---- related people and notifications ----
    obj_owner,         \* object -> its owner, or None
    assigned_to,       \* the task's assigned_to, or None
    user_state,        \* user -> "active" | "inactive" | "system"
    notified,          \* the last send_notifications call and what came of it
    \* ---- the objects in the database and the read requests ----
    exists,            \* the objects that have a row (were not deleted)
    answer,            \* the last voters / watchers read and its response
    \* ---- the serializer ----
    restored,          \* the last restore_object call and the watchers before it
    \* ---- role points of one project ----
    computable,        \* role of the project -> "none" | "computable" | "plain"
    points,            \* the names of the project's Points rows
    role_points,       \* the RolePoints rows: <<user story, role, name of points>>
    urp,               \* the last update_role_points call
    \* ---- project slugs ----
    project_slug,      \* project -> the slug of its stored row, <<>> without a row
    slug_saved         \* the last Project.save call and what came of it

votevars == <<votes_vote, votes_votes, watched, notify_policies,
              pc, req, tx, nreq, last>>
membervars == <<memberships, mseq, mlast>>
tmplvars == <<rows, defaults, default_owner, roles, owner_role, template,
              tphase, traised, pfields, ttarget>>
favvars == <<fav_votes, fav_watches, is_private, anon_permissions, role_permissions>>
peoplevars == <<obj_owner, assigned_to, user_state, notified>>
readvars == <<exists, answer>>
pointsvars == <<computable, points, role_points, urp>>
slugvars == <<project_slug, slug_saved>>
restvars == <<readvars, restored, pointsvars, slugvars>>
vars == <<votevars, membervars, tmplvars, favvars, peoplevars, restvars>>

(***************************************************************************)
(* Bounds of the model.                                                    *)
(***************************************************************************)
MaxRequests == 2       \* requests received in one behaviour
MaxMemberships == 3    \* membership rows ever created in one behaviour
MaxRows == 2           \* taxonomy rows the source project is built with

Users == {"u1", "u2"}
Workers == {"w1", "w2"}
None == "None"
NoRow == "NoRow"

(***************************************************************************)
(* Polymorphic references: (content type, object id).                      *)
(***************************************************************************)
ProjectRef == <<"project", 1>>
TaskRef == <<"task", 1>>
Refs == {ProjectRef, TaskRef}

IsProject(ref) == ref[1] = "project"

\* NotifyLevel.watch and NotifyLevel.ignore, the levels models.py names.
NotifyLevel == {"watch", "ignore"}

Ops == {"upvote", "downvote", "watch", "unwatch"}

(***************************************************************************)
(* What a request carries and what a transaction has staged.               *)
(***************************************************************************)
NoReq == [op |-> "none", ref |-> TaskRef, user |-> "u1", overtaken |-> FALSE]
NoTx == [store |-> "none", ref |-> TaskRef, user |-> "u1",
         row |-> "none", count |-> <<>>, level |-> None]
NoDetail == [votes |-> 0, is_voted |-> FALSE, watchers |-> {}, is_watched |-> FALSE]
NoEntry == [op |-> "none", ref |-> TaskRef, user |-> "u1", response |-> "none",
            concurrent |-> FALSE, before |-> NoDetail, after |-> NoDetail]

(***************************************************************************)
(* The query annotator (votes/utils.py) and the serializer methods that    *)
(* read what it attached (votes/mixins/serializers.py).                    *)
(***************************************************************************)
\* An attribute the queryset attached is <<value>>; one it did not is <<>>.
Unattached == <<>>

RECURSIVE SumCounts(_)
SumCounts(rs) ==
    IF rs = {} THEN 0
    ELSE LET r == CHOOSE x \in rs : TRUE IN r[2] + SumCounts(rs \ {r})

\* request.user of a request without credentials (AnonymousUser).
Anonymous == "anonymous"
Viewers == Users \cup {Anonymous}

is_authenticated(user) == user \in Users

\* Faulty variant: the WHERE clause without its content_type_id condition.
attach_votes_count_any_type(vs, ref) ==
    SumCounts({r \in vs : r[1][2] = ref[2]})

\* SELECT coalesce(SUM(coalesce(votes_votes.count, 0)), 0) over the rows of the
\* object's content type and id.
attach_votes_count_to_queryset(vs, ref) ==
    SumCounts({r \in vs : r[1] = ref})

\* Faulty variant: the WHERE clause without its user_id condition.
attach_is_vote_any_user(vv, user, ref) ==
    \E u \in Users : vv[<<ref, u>>] > 0

\* CASE WHEN (SELECT count(*) FROM votes_vote WHERE type, id, user) > 0
attach_is_vote_to_queryset(vv, user, ref) ==
    vv[<<ref, user>>] > 0

attach_votes_attrs_to_queryset(vv, vs, user, ref) ==
    [votes_count |-> <<attach_votes_count_to_queryset(vs, ref)>>,
     is_voted |-> IF is_authenticated(user)
                  THEN <<attach_is_vote_to_queryset(vv, user, ref)>>
                  ELSE Unattached]

\* Faulty variant: getattr reads an attribute the queryset never attaches.
get_votes_counter_wrong_attr(obj) == 0

\* getattr(obj, "votes_count", 0) or 0
get_votes_counter(obj) ==
    IF obj.votes_count = Unattached THEN 0 ELSE obj.votes_count[1]

\* Faulty variant: getattr(obj, "is_voted", True).
get_is_voted_default_true(obj) ==
    IF obj.is_voted = Unattached THEN TRUE ELSE obj.is_voted[1]

\* getattr(obj, "is_voted", False) or False
get_is_voted(obj) ==
    IF obj.is_voted = Unattached THEN FALSE ELSE obj.is_voted[1]

(***************************************************************************)
(* The voters and the watchers of an object.                               *)
(***************************************************************************)
\* votes.services.get_voters: the users with a Vote row on the object.
get_voters(vv, ref) == {u \in Users : vv[<<ref, u>>] > 0}

\* notifications.services.get_watchers: the users with a Watched row.
services_get_watchers(w, ref) == {u \in Users : w[<<ref, u>>] > 0}

\* Faulty variant: the Q object without its ~Q(notify_level = ignore) part.
Project_get_q_watchers_any_level(np, ref, u) ==
    np[<<ref, u>>] # NoRow

\* Project._get_q_watchers: Q(notify_policies__project_id = self.id)
\*                          & ~Q(notify_policies__notify_level = ignore)
Project_get_q_watchers(np, ref, u) ==
    /\ np[<<ref, u>>] # NoRow
    /\ np[<<ref, u>>] # "ignore"

\* Project.get_watchers
Project_get_watchers(np, ref) ==
    {u \in Users : Project_get_q_watchers(np, ref, u)}

\* obj.get_watchers(): Project's own method, WatchedModelMixin's for the rest.
get_watchers(w, np, ref) ==
    IF IsProject(ref) THEN Project_get_watchers(np, ref)
    ELSE services_get_watchers(w, ref)

\* notifications.utils.attach_is_watched_to_queryset, for an authenticated user.
attach_is_watched_to_queryset(w, np, user, ref) ==
    user \in get_watchers(w, np, ref)

\* WatchedResourceMixin.attach_watchers_attrs_to_queryset
attach_watchers_attrs_to_queryset(w, np, user, ref) ==
    [watchers |-> get_watchers(w, np, ref),
     is_watched |-> IF is_authenticated(user)
                    THEN <<attach_is_watched_to_queryset(w, np, user, ref)>>
                    ELSE Unattached]

\* getattr(obj, "is_watched", False) or False
get_is_watched(obj) ==
    IF obj.is_watched = Unattached THEN FALSE ELSE obj.is_watched[1]

\* The detail response of an object for a viewer, over given tables.
Detail(vv, vs, w, np, user, ref) ==
    LET voted == attach_votes_attrs_to_queryset(vv, vs, user, ref)
        watch == attach_watchers_attrs_to_queryset(w, np, user, ref)
    IN  [votes |-> get_votes_counter(voted),
         is_voted |-> get_is_voted(voted),
         watchers |-> watch.watchers,
         is_watched |-> get_is_watched(watch)]

(***************************************************************************)
(* Requests.  A worker serves one request at a time:                       *)
(*   idle -> check (get_object done) -> call (check_permissions passed)    *)
(*        -> row / second (inside the store's transaction) -> idle.        *)
(* A transaction stages its writes in tx and the tables change when it     *)
(* commits.  A staged row holds its unique key, and a staged count holds   *)
(* the object's votes_votes row, until the transaction ends.               *)
(***************************************************************************)
tables == <<votes_vote, votes_votes, watched, notify_policies>>

InTx(q) == pc[q] \in {"row", "second"}

\* Faulty variant: no unique key on (content type, object id, user).
KeyFree_no_unique(p, store, ref, user) == TRUE

KeyFree(p, store, ref, user) ==
    \A q \in Workers \ {p} :
        ~(InTx(q) /\ tx[q].store = store /\ tx[q].ref = ref /\ tx[q].user = user)

CounterFree(p, ref) ==
    \A q \in Workers \ {p} :
        ~(pc[q] = "second" /\ tx[q].store = "vote" /\ tx[q].ref = ref)

\* The handler returns: the tables take the given values and the answer is logged
\* with the object's detail, as the requesting user sees it, before and after.
\* The entry is concurrent when the request was received before the answer logged
\* just before it was given; the requests still in flight are now overtaken.
Complete(p, response, vv, vs, w, np) ==
    /\ votes_vote' = vv
    /\ votes_votes' = vs
    /\ watched' = w
    /\ notify_policies' = np
    /\ pc' = [pc EXCEPT ![p] = "idle"]
    /\ req' = [q \in Workers |->
                   IF q = p THEN NoReq
                   ELSE IF pc[q] = "idle" THEN req[q]
                   ELSE [req[q] EXCEPT !.overtaken = TRUE]]
    /\ tx' = [tx EXCEPT ![p] = NoTx]
    /\ last' = [op |-> req[p].op, ref |-> req[p].ref, user |-> req[p].user,
                response |-> response,
                concurrent |-> req[p].overtaken,
                before |-> Detail(votes_vote, votes_votes, watched, notify_policies,
                                  req[p].user, req[p].ref),
                after |-> Detail(vv, vs, w, np, req[p].user, req[p].ref)]
    /\ UNCHANGED <<nreq, membervars, tmplvars, favvars,
                   peoplevars, restvars>>

\* The handler goes on inside the call: nothing but its own position changes.
Stay(p, newpc, newtx) ==
    /\ pc' = [pc EXCEPT ![p] = newpc]
    /\ tx' = [tx EXCEPT ![p] = newtx]
    /\ UNCHANGED <<tables, req, nreq, last, membervars, tmplvars, favvars,
                   peoplevars, restvars>>

Unchanged(p, response) ==
    Complete(p, response, votes_vote, votes_votes, watched, notify_policies)

NewTx(store, ref, user, row) ==
    [NoTx EXCEPT !.store = store, !.ref = ref, !.user = user, !.row = row]

\* obj = self.get_object(): a request for an object arrives and the first free
\* worker takes it.
FirstIdle(p) ==
    /\ pc[p] = "idle"
    /\ p = "w2" => pc["w1"] # "idle"

Request(p, op, ref, user) ==
    /\ FirstIdle(p)
    /\ nreq < MaxRequests
    /\ nreq' = nreq + 1
    /\ IF ref \in exists
       THEN /\ pc' = [pc EXCEPT ![p] = "check"]
            /\ req' = [req EXCEPT ![p] = [op |-> op, ref |-> ref, user |-> user,
                                          overtaken |-> FALSE]]
            /\ UNCHANGED last
       ELSE \* get_object raises Http404: the handler ends here.
            /\ last' = [NoEntry EXCEPT !.op = op, !.ref = ref, !.user = user,
                                       !.response = "NotFound"]
            /\ UNCHANGED <<pc, req>>
    /\ UNCHANGED <<tables, tx, membervars, tmplvars, favvars,
                   peoplevars, restvars>>

\* Faulty variant: the row is written before the check, whose refusal leaves it.
check_permissions_after_store(p) ==
    /\ pc[p] = "check"
    /\ \/ Stay(p, "call", NoTx)
       \/ LET k == <<req[p].ref, req[p].user>>
          IN  IF req[p].op \in {"upvote", "downvote"}
              THEN Complete(p, "Forbidden", [votes_vote EXCEPT ![k] = 1],
                            votes_votes, watched, notify_policies)
              ELSE Complete(p, "Forbidden", votes_vote, votes_votes,
                            [watched EXCEPT ![k] = 1], notify_policies)

\* self.check_permissions(request, permission, obj): the permission classes are
\* an external collaborator; the check passes or the request is refused.
check_permissions(p) ==
    /\ pc[p] = "check"
    /\ \/ Stay(p, "call", NoTx)
       \/ Unchanged(p, "Forbidden")

(***************************************************************************)
(* votes.services.add_vote and remove_vote (spec.md 4.2).                  *)
(***************************************************************************)
add_vote(p, obj, user) ==
    \/ /\ pc[p] = "call"
       /\ KeyFree(p, "vote", obj, user)
       /\ IF votes_vote[<<obj, user>>] > 0
          THEN Unchanged(p, "Ok")
          ELSE Stay(p, "row", NewTx("vote", obj, user, "insert"))
    \/ /\ pc[p] = "row"
       /\ CounterFree(p, tx[p].ref)
       /\ Stay(p, "second",
               [tx[p] EXCEPT !.count =
                    <<SumCounts({r \in votes_votes : r[1] = tx[p].ref}) + 1>>])

remove_vote(p, obj, user) ==
    \/ /\ pc[p] = "call"
       /\ KeyFree(p, "vote", obj, user)
       /\ IF votes_vote[<<obj, user>>] = 0
          THEN Unchanged(p, "Ok")
          ELSE Stay(p, "row", NewTx("vote", obj, user, "delete"))
    \/ /\ pc[p] = "row"
       /\ CounterFree(p, tx[p].ref)
       /\ LET n == SumCounts({r \in votes_votes : r[1] = tx[p].ref})
          IN  IF n = 0
              THEN Unchanged(p, "ConsistencyFault")     \* nothing to decrement
              ELSE Stay(p, "second", [tx[p] EXCEPT !.count = <<n - 1>>])

(***************************************************************************)
(* notifications.services.add_watcher and remove_watcher (spec.md 4.3),    *)
(* and Project.add_watcher / Project.remove_watcher (models.py).           *)
(***************************************************************************)
services_add_watcher(p, obj, user) ==
    /\ pc[p] = "call"
    /\ KeyFree(p, "watch", obj, user)
    /\ IF watched[<<obj, user>>] > 0
       THEN Unchanged(p, "Ok")
       ELSE Stay(p, "second", NewTx("watch", obj, user, "insert"))

services_remove_watcher(p, obj, user) ==
    /\ pc[p] = "call"
    /\ KeyFree(p, "watch", obj, user)
    /\ IF watched[<<obj, user>>] = 0
       THEN Unchanged(p, "Ok")
       ELSE Stay(p, "second", NewTx("watch", obj, user, "delete"))

\* notify_policy = create_notify_policy_if_not_exists(self, user)
\* set_notify_policy_level(notify_policy, notify_level)
Project_add_watcher(p, proj, user, notify_level) ==
    \/ /\ pc[p] = "call"
       /\ KeyFree(p, "policy", proj, user)
       /\ IF notify_policies[<<proj, user>>] = NoRow
          THEN \E lvl \in NotifyLevel :
                   Stay(p, "row", [NewTx("policy", proj, user, "insert")
                                       EXCEPT !.level = lvl])
          ELSE Stay(p, "row", [NewTx("policy", proj, user, "none")
                                   EXCEPT !.level = notify_policies[<<proj, user>>]])
    \/ /\ pc[p] = "row"
       /\ Stay(p, "second", [tx[p] EXCEPT !.level = notify_level])

\* notify_policy = get_notify_policy(self, user)
\* set_notify_policy_level_to_ignore(notify_policy)
\* With no policy row, get_notify_policy either creates one or raises.
Project_remove_watcher(p, proj, user) ==
    \/ /\ pc[p] = "call"
       /\ KeyFree(p, "policy", proj, user)
       /\ IF notify_policies[<<proj, user>>] = NoRow
          THEN \/ \E lvl \in NotifyLevel :
                     Stay(p, "row", [NewTx("policy", proj, user, "insert")
                                         EXCEPT !.level = lvl])
               \/ Unchanged(p, "DoesNotExist")
          ELSE Stay(p, "row", [NewTx("policy", proj, user, "none")
                                   EXCEPT !.level = notify_policies[<<proj, user>>]])
    \/ /\ pc[p] = "row"
       /\ Stay(p, "second", [tx[p] EXCEPT !.level = "ignore"])

add_watcher(p, obj, user) ==
    IF IsProject(obj) THEN Project_add_watcher(p, obj, user, "watch")
    ELSE services_add_watcher(p, obj, user)

remove_watcher(p, obj, user) ==
    IF IsProject(obj) THEN Project_remove_watcher(p, obj, user)
    ELSE services_remove_watcher(p, obj, user)

(***************************************************************************)
(* The end of a transaction.                                               *)
(***************************************************************************)
\* The tables with the staged writes of t applied.
Applied(t) ==
    [vv |-> IF t.store = "vote" /\ t.row = "insert"
            THEN [votes_vote EXCEPT ![<<t.ref, t.user>>] = @ + 1]
            ELSE IF t.store = "vote" /\ t.row = "delete"
            THEN [votes_vote EXCEPT ![<<t.ref, t.user>>] = 0]
            ELSE votes_vote,
     vs |-> IF t.store = "vote" /\ t.count # <<>>
            THEN {r \in votes_votes : r[1] # t.ref} \cup {<<t.ref, t.count[1]>>}
            ELSE votes_votes,
     w  |-> IF t.store = "watch" /\ t.row = "insert"
            THEN [watched EXCEPT ![<<t.ref, t.user>>] = @ + 1]
            ELSE IF t.store = "watch" /\ t.row = "delete"
            THEN [watched EXCEPT ![<<t.ref, t.user>>] = 0]
            ELSE watched,
     np |-> IF t.store = "policy"
            THEN [notify_policies EXCEPT ![<<t.ref, t.user>>] = t.level]
            ELSE notify_policies]

\* Faulty variant: the row write is not part of the transaction and survives its failure.
RolledBack_row_kept(t) ==
    [vv |-> Applied(t).vv, vs |-> votes_votes, w |-> Applied(t).w,
     np |-> notify_policies]

\* What a failed transaction leaves: the tables as they were.
RolledBack(t) ==
    [vv |-> votes_vote, vs |-> votes_votes, w |-> watched, np |-> notify_policies]

\* A notify policy has a foreign key to its project: the database refuses the
\* row of a project that is gone.  Vote and Watched rows name their object by
\* (content_type_id, object_id), which no constraint guards.
commit(p) ==
    /\ pc[p] = "second"
    /\ IF tx[p].store = "policy" /\ tx[p].ref \notin exists
       THEN LET a == RolledBack(tx[p])
            IN  Complete(p, "ServerError", a.vv, a.vs, a.w, a.np)
       ELSE LET a == Applied(tx[p])
            IN  Complete(p, "Ok", a.vv, a.vs, a.w, a.np)

\* The transaction fails at some step after its first write was staged.
rollback(p) ==
    /\ InTx(p)
    /\ LET a == RolledBack(tx[p])
       IN  Complete(p, "ServerError", a.vv, a.vs, a.w, a.np)

(***************************************************************************)
(* The resource handlers (votes/mixins/viewsets.py, notifications/mixins.py)*)
(***************************************************************************)
\* Faulty variant: the vote is cast for a fixed user instead of request.user.
_add_voter_fixed_user(p) ==
    add_vote(p, req[p].ref, "u1")

\* Faulty variant: the handler calls services.add_vote, as _add_voter does.
_remove_vote_adds(p) ==
    add_vote(p, req[p].ref, req[p].user)

\* BaseVotedResource._add_voter: services.add_vote(obj, user=request.user)
_add_voter(p) ==
    add_vote(p, req[p].ref, req[p].user)

\* BaseVotedResource._remove_vote: services.remove_vote(obj, user=request.user)
_remove_vote(p) ==
    remove_vote(p, req[p].ref, req[p].user)

\* VotedResourceMixin.upvote (and LikedResourceMixin.like)
upvote(p) == req[p].op = "upvote" /\ _add_voter(p)

\* VotedResourceMixin.downvote (and LikedResourceMixin.unlike)
downvote(p) == req[p].op = "downvote" /\ _remove_vote(p)

\* WatchedResourceMixin.watch: services.add_watcher(obj, request.user)
watch(p) == req[p].op = "watch" /\ add_watcher(p, req[p].ref, req[p].user)

\* WatchedResourceMixin.unwatch: services.remove_watcher(obj, request.user)
unwatch(p) == req[p].op = "unwatch" /\ remove_watcher(p, req[p].ref, req[p].user)

InitVotes ==
    /\ votes_vote = [k \in Refs \X Users |-> 0]
    /\ votes_votes = {}
    /\ watched = [k \in Refs \X Users |-> 0]
    /\ notify_policies = [k \in {ProjectRef} \X Users |-> NoRow]
    /\ pc = [p \in Workers |-> "idle"]
    /\ req = [p \in Workers |-> NoReq]
    /\ tx = [p \in Workers |-> NoTx]
    /\ nreq = 0
    /\ last = NoEntry

(***************************************************************************)
(* The initial state: empty tables, idle workers, two saved projects.      *)
(***************************************************************************)
Projects == {"p1", "p2"}

InitMembers ==
    /\ memberships = {}
    /\ mseq = 0
    /\ mlast = [user |-> None, project |-> "p1", id |-> 0, second |-> FALSE,
                result |-> "none"]

Taxonomies == {"points", "us_status", "task_status", "issue_status",
               "issue_type", "priority", "severity"}
Names == {"a", "b"}
NotLoaded == [default_options |-> [t \in Taxonomies |-> None],
              snapshot |-> [t \in Taxonomies |-> {}],
              roles |-> <<>>, default_owner_role |-> None,
              is_kanban_activated |-> FALSE]

\* A Project instance that was never saved: its id is None.
Unsaved == "unsaved"
Instances == Projects \cup {Unsaved}

InitTemplates ==
    /\ rows = [k \in Instances \X Taxonomies |-> {}]
    /\ defaults = [k \in Instances \X Taxonomies |-> None]
    /\ default_owner = [k \in Instances \X Taxonomies |-> None]
    /\ roles = [k \in Instances |-> <<>>]
    /\ owner_role = [k \in Instances |-> None]
    /\ template = NotLoaded
    /\ tphase = "build"
    /\ traised = None
    /\ pfields = [k \in Instances |->
                     [creation_template |-> None, is_kanban_activated |-> FALSE]]
    /\ ttarget = None

FavKinds == {"project", "userstory", "task", "issue"}
Perms == {"view_project", "view_us", "view_tasks", "view_issues"}
PermSets == {{}, {"view_project"}, Perms}

\* A public project with one entity of each kind, nobody's favourite yet.
InitFavourites ==
    /\ fav_votes = {}
    /\ fav_watches = {}
    /\ is_private = FALSE
    /\ anon_permissions = {}
    /\ role_permissions = [u \in Users |-> <<>>]

NotNotified == [ref |-> TaskRef, mentions |-> {}, watchers_before |-> {},
                recipients |-> {}, result |-> "none",
                history |-> FALSE, _not_notify |-> FALSE,
                analized |-> 0, sent |-> 0]

\* The project and the task are owned by u1; every user is active.
InitPeople ==
    /\ obj_owner = [ref \in Refs |-> "u1"]
    /\ assigned_to = None
    /\ user_state = [u \in Users |-> "active"]
    /\ notified = NotNotified

NoAnswer == [view |-> "none", ref |-> TaskRef, pk |-> "u1",
             status |-> "none", data |-> {}]

\* The project and the task are in the database; nothing was read yet.
InitReads ==
    /\ exists = Refs
    /\ answer = NoAnswer

ProjectRoles == {"r1", "r2"}
UserStories == {"us1", "us2"}

\* A project with two user stories, no role yet, and one Points row of value 1.
InitRolePoints ==
    /\ computable = [role \in ProjectRoles |-> "none"]
    /\ points = {"one"}
    /\ role_points = {}
    /\ urp = [tick |-> FALSE, user_stories |-> <<>>]

SlugProjects == {"s1", "s2", "s3"}

NotSaved == [project |-> "s1", before |-> <<>>, after |-> <<>>, result |-> "none",
             tick |-> FALSE]

\* No project is stored yet.
InitSlugs ==
    /\ project_slug = [project \in SlugProjects |-> <<>>]
    /\ slug_saved = NotSaved

NotRestored == [instance |-> <<>>, watchers |-> <<>>, old |-> {}, result |-> "none"]

Init ==
    /\ InitVotes /\ InitMembers /\ InitTemplates /\ InitFavourites /\ InitPeople
    /\ InitReads
    /\ restored = NotRestored
    /\ InitRolePoints
    /\ InitSlugs

Next ==
    \/ \E p \in Workers, op \in Ops, ref \in Refs, user \in Users :
            Request(p, op, ref, user)
    \/ \E p \in Workers : check_permissions(p)
    \/ \E p \in Workers : upvote(p)
    \/ \E p \in Workers : downvote(p)
    \/ \E p \in Workers : watch(p)
    \/ \E p \in Workers : unwatch(p)
    \/ \E p \in Workers : commit(p)
    \/ \E p \in Workers : rollback(p)

Spec == Init /\ [][Next]_vars

(***************************************************************************)
(* Memberships (models.py, class Membership).  A row is [id, user,         *)
(* project]; user is None for an invitation.  An instance not yet saved    *)
(* has id 0 (Python's None).                                               *)
(***************************************************************************)
\* Membership.objects.filter(user=self.user, project=self.project)
clean_queryset(self) ==
    {m \in memberships : m.user = self.user /\ m.project = self.project}

\* Faulty variant: the condition without its "self.user and" guard.
clean_without_user_guard(self, first) ==
    /\ Cardinality(clean_queryset(self)) > 0
    /\ first.id # self.id

\* Membership.clean raises ValidationError when
\*   self.user and memberships.count() > 0 and memberships[0].id != self.id
\* first is memberships[0] (self when the queryset is empty and [0] is not read).
clean(self, first) ==
    /\ self.user # None
    /\ Cardinality(clean_queryset(self)) > 0
    /\ first.id # self.id

\* Meta.unique_together = ("user", "project"): the database refuses a second row
\* with the same non-null user and the same project.
unique_together(self) ==
    \A m \in memberships :
        (m.id # self.id /\ m.user # None) =>
            ~(m.user = self.user /\ m.project = self.project)

\* Another row of the same (user, project) pair is stored already.
IsSecond(self) ==
    \E m \in memberships :
        m.id # self.id /\ m.user = self.user /\ m.project = self.project

\* full_clean() and then save() of an instance; stored replaces the row it
\* updates ({} for a new instance).
ValidateAndSave(self, stored) ==
    LET qs == clean_queryset(self)
        saved == IF self.id = 0 THEN [self EXCEPT !.id = mseq + 1] ELSE self
        result(r) == [user |-> self.user, project |-> self.project, id |-> self.id,
                      second |-> IsSecond(self), result |-> r]
    IN  \E first \in (IF qs = {} THEN {self} ELSE qs) :
            IF clean(self, first)
            THEN /\ mlast' = result("ValidationError")
                 /\ UNCHANGED <<memberships, mseq>>
            ELSE IF ~unique_together(self)
            THEN /\ mlast' = result("IntegrityError")
                 /\ UNCHANGED <<memberships, mseq>>
            ELSE /\ mlast' = result("saved")
                 /\ memberships' = (memberships \ stored) \cup {saved}
                 /\ mseq' = IF self.id = 0 THEN mseq + 1 ELSE mseq

\* A new membership (user given) or invitation (user None) is validated and saved.
CreateMembership(user, project) ==
    /\ mseq < MaxMemberships
    /\ ValidateAndSave([id |-> 0, user |-> user, project |-> project], {})
    /\ UNCHANGED <<votevars, tmplvars, favvars,
                   peoplevars, restvars>>

\* A stored membership is validated and saved with another user: an invitation
\* is accepted, or the row is edited.
UpdateMembership(m, user) ==
    /\ m \in memberships
    /\ ValidateAndSave([m EXCEPT !.user = user], {m})
    /\ UNCHANGED <<votevars, tmplvars, favvars,
                   peoplevars, restvars>>

DeleteMembership(m) ==
    /\ m \in memberships
    /\ memberships' = memberships \ {m}
    /\ UNCHANGED <<mseq, mlast, votevars, tmplvars, favvars,
                   peoplevars, restvars>>

NextMembership ==
    \/ \E user \in Users \cup {None}, project \in Projects :
            CreateMembership(user, project)
    \/ \E m \in memberships, user \in Users \cup {None} : UpdateMembership(m, user)
    \/ \E m \in memberships : DeleteMembership(m)

SpecMembership == Init /\ [][NextMembership]_vars

(***************************************************************************)
(* Project templates (models.py, class ProjectTemplate).  rows[<<P, t>>]   *)
(* is the set of names of P's rows of taxonomy t (names are unique in a    *)
(* project), defaults[<<P, t>>] the name of the row P.default_<t> points   *)
(* to, or None.  The source project is built first, then one template is   *)
(* loaded from it and applied to the target project.                       *)
(***************************************************************************)
Source == "p1"
Target == "p2"
RoleSlugs == {"r1", "r2"}

\* The order in which apply_to_project resolves the defaults.
TaxOrder == <<"points", "us_status", "task_status", "issue_status",
              "issue_type", "priority", "severity">>

\* Faulty variant: Project.id is taken to be set whatever the instance.
Project_id_never_none(project) == 1

\* Project.id: both projects are saved; 0 stands for Python's None.
Project_id(project) == IF project \in Projects THEN 1 ELSE 0

RECURSIVE CountRows(_)
CountRows(ks) ==
    IF ks = {} THEN 0
    ELSE LET k == CHOOSE x \in ks : TRUE
         IN  Cardinality(rows[k]) + CountRows(ks \ {k})

SlugsOf(rs) == {rs[i] : i \in 1..Len(rs)}
Without(rs, slug) == SelectSeq(rs, LAMBDA x : x # slug)

\* <Taxonomy>.objects.create(project=P, name=name); unique_together (project, name).
CreateRow(tax, name) ==
    /\ tphase = "build"
    /\ name \notin rows[<<Source, tax>>]
    /\ CountRows({Source} \X Taxonomies) < MaxRows
    /\ rows' = [rows EXCEPT ![<<Source, tax>>] = @ \cup {name}]
    /\ UNCHANGED <<defaults, roles, owner_role, template, tphase, traised, pfields, ttarget, default_owner,
                   votevars, membervars, favvars,
                   peoplevars, restvars>>

\* Deleting a row; Project.default_<tax> is on_delete=SET_NULL.
DeleteRow(tax, name) ==
    /\ tphase = "build"
    /\ name \in rows[<<Source, tax>>]
    /\ rows' = [rows EXCEPT ![<<Source, tax>>] = @ \ {name}]
    /\ defaults' = [defaults EXCEPT ![<<Source, tax>>] =
                        IF @ = name THEN None ELSE @]
    /\ default_owner' = [default_owner EXCEPT ![<<Source, tax>>] =
                             IF defaults[<<Source, tax>>] = name THEN None ELSE @]
    /\ UNCHANGED <<roles, owner_role, template, tphase, traised, pfields, ttarget,
                   votevars, membervars, favvars,
                   peoplevars, restvars>>

\* project.default_<tax> = row; project.save()
SetDefault(tax, name) ==
    /\ tphase = "build"
    /\ name \in rows[<<Source, tax>>]
    /\ defaults[<<Source, tax>>] # name
    /\ defaults' = [defaults EXCEPT ![<<Source, tax>>] = name]
    /\ default_owner' = [default_owner EXCEPT ![<<Source, tax>>] = Source]
    /\ UNCHANGED <<rows, roles, owner_role, template, tphase, traised, pfields, ttarget,
                   votevars, membervars, favvars,
                   peoplevars, restvars>>

\* Role.objects.create(project=P, slug=slug)
CreateRole(slug) ==
    /\ tphase = "build"
    /\ slug \notin SlugsOf(roles[Source])
    /\ roles' = [roles EXCEPT ![Source] = Append(@, slug)]
    /\ UNCHANGED <<rows, defaults, owner_role, template, tphase, traised, pfields, ttarget, default_owner,
                   votevars, membervars, favvars,
                   peoplevars, restvars>>

\* Deleting a role deletes the memberships that hold it.
DeleteRole(slug) ==
    /\ tphase = "build"
    /\ slug \in SlugsOf(roles[Source])
    /\ roles' = [roles EXCEPT ![Source] = Without(@, slug)]
    /\ owner_role' = [owner_role EXCEPT ![Source] = IF @ = slug THEN None ELSE @]
    /\ UNCHANGED <<rows, defaults, template, tphase, traised, pfields, ttarget, default_owner,
                   votevars, membervars, favvars,
                   peoplevars, restvars>>

\* The membership of project.owner is created with, or moved to, a role of the project.
SetOwnerMembership(slug) ==
    /\ tphase = "build"
    /\ slug \in SlugsOf(roles[Source])
    /\ owner_role[Source] # slug
    /\ owner_role' = [owner_role EXCEPT ![Source] = slug]
    /\ UNCHANGED <<rows, defaults, roles, template, tphase, traised, pfields, ttarget, default_owner,
                   votevars, membervars, favvars,
                   peoplevars, restvars>>

DeleteOwnerMembership ==
    /\ tphase = "build"
    /\ owner_role[Source] # None
    /\ owner_role' = [owner_role EXCEPT ![Source] = None]
    /\ UNCHANGED <<rows, defaults, roles, template, tphase, traised, pfields, ttarget, default_owner,
                   votevars, membervars, favvars,
                   peoplevars, restvars>>

\* The name and the taxonomies of the rows the target project has of its own.
OwnName == "c"
OwnTaxonomies == {"points"}

\* The project the template will be applied to gets a row of its own and makes
\* it its default: <Taxonomy>.objects.create(project=P, name=name);
\* P.default_<tax> = row; P.save()
CreateOwnDefault(tax) ==
    /\ tphase = "build"
    /\ rows[<<Target, tax>>] = {}
    /\ rows' = [rows EXCEPT ![<<Target, tax>>] = {OwnName}]
    /\ defaults' = [defaults EXCEPT ![<<Target, tax>>] = OwnName]
    /\ default_owner' = [default_owner EXCEPT ![<<Target, tax>>] = Target]
    /\ UNCHANGED <<roles, owner_role, template, tphase, traised, pfields, ttarget,
                   votevars, membervars, favvars, peoplevars, restvars>>

\* project.is_kanban_activated = value; project.save()
SetKanban(value) ==
    /\ tphase = "build"
    /\ pfields[Source].is_kanban_activated # value
    /\ pfields' = [pfields EXCEPT ![Source].is_kanban_activated = value]
    /\ UNCHANGED <<rows, defaults, roles, owner_role, template, tphase, traised,
                   ttarget, default_owner, votevars, membervars, favvars,
                   peoplevars, restvars>>

\* ProjectTemplate.load_data_from_project: the module flags are copied;
\* default_options holds the name of each
\* default or None, the per-taxonomy lists hold the rows, roles the roles;
\* default_owner_role is the role of the owner's membership, else self.roles[0],
\* which raises IndexError when the project has no role.
load_data_from_project(project) ==
    /\ tphase = "build"
    /\ LET loaded == [default_options |-> [t \in Taxonomies |-> defaults[<<project, t>>]],
                      snapshot |-> [t \in Taxonomies |-> rows[<<project, t>>]],
                      roles |-> roles[project],
                      default_owner_role |-> template.default_owner_role,
                      is_kanban_activated |-> pfields[project].is_kanban_activated]
       IN  IF owner_role[project] # None
           THEN /\ template' = [loaded EXCEPT !.default_owner_role = owner_role[project]]
                /\ tphase' = "loaded"
                /\ traised' = None
           ELSE IF Len(loaded.roles) = 0
           THEN /\ template' = loaded
                /\ tphase' = "load_raised"
                /\ traised' = "IndexError"
           ELSE /\ template' = [loaded EXCEPT !.default_owner_role = loaded.roles[1]]
                /\ tphase' = "loaded"
                /\ traised' = None
    /\ UNCHANGED <<rows, defaults, roles, owner_role, pfields, ttarget, default_owner,
                   votevars, membervars, favvars,
                   peoplevars, restvars>>

\* Faulty variant: get(name=...) without project=project finds the row of the
\* first project that has one of that name.
objects_get_any_project(t, name, project, created) ==
    IF name \in rows[<<Source, t>>] THEN <<Source>>
    ELSE IF name \in created[t] THEN <<project>>
    ELSE <<>>

\* <Taxonomy>.objects.get(name=name, project=project): <<project of the row>>,
\* or <<>> for DoesNotExist (None names no row).  created holds the names of
\* the rows the project has by now.
objects_get(t, name, project, created) ==
    IF name \in created[t] THEN <<project>> ELSE <<>>

\* The tail of apply_to_project: for each taxonomy whose template list is not
\* empty, project.default_<t> = <Taxonomy>.objects.get(name=default_options[t],
\* project=project).  d holds the names and o the projects of the rows the
\* project's default_* attributes point to so far.
RECURSIVE get_defaults(_, _, _, _, _)
get_defaults(i, d, o, project, created) ==
    IF i > Len(TaxOrder) THEN [defaults |-> d, owners |-> o, raised |-> None]
    ELSE LET t == TaxOrder[i]
             row == objects_get(t, template.default_options[t], project, created)
         IN  IF template.snapshot[t] = {}
             THEN get_defaults(i + 1, d, o, project, created)
             ELSE IF row # <<>>
             THEN get_defaults(i + 1, [d EXCEPT ![t] = template.default_options[t]],
                               [o EXCEPT ![t] = row[1]], project, created)
             ELSE [defaults |-> d, owners |-> o, raised |-> "DoesNotExist"]

\* The assignments at the head of apply_to_project.
set_fields(project) ==
    [pfields EXCEPT ![project] =
        [creation_template |-> "template",
         is_kanban_activated |-> template.is_kanban_activated]]

\* ProjectTemplate.apply_to_project: refuses a project without id; sets
\* creation_template and the module flags, creates the rows of every taxonomy and
\* the roles in the project, then resolves the defaults.  What was assigned and
\* created before an exception stays.
apply_to_project(project) ==
    /\ tphase = "loaded"
    /\ ttarget' = project
    /\ IF Project_id(project) = 0
       THEN /\ tphase' = "apply_raised"
            /\ traised' = "Exception"
            /\ UNCHANGED <<rows, defaults, default_owner, roles, pfields>>
       ELSE IF \E t \in Taxonomies : template.snapshot[t] \cap rows[<<project, t>>] # {}
       THEN /\ tphase' = "apply_raised"
            /\ traised' = "IntegrityError"
            /\ pfields' = set_fields(project)
            /\ UNCHANGED <<rows, defaults, default_owner, roles>>
       ELSE LET created == [t \in Taxonomies |->
                                rows[<<project, t>>] \cup template.snapshot[t]]
                got == get_defaults(1, [t \in Taxonomies |-> defaults[<<project, t>>]],
                                    [t \in Taxonomies |-> default_owner[<<project, t>>]],
                                    project, created)
            IN  /\ rows' = [k \in DOMAIN rows |->
                               IF k[1] = project THEN created[k[2]] ELSE rows[k]]
                /\ roles' = [roles EXCEPT ![project] = @ \o template.roles]
                /\ defaults' = [k \in DOMAIN defaults |->
                                   IF k[1] = project THEN got.defaults[k[2]]
                                   ELSE defaults[k]]
                /\ default_owner' = [k \in DOMAIN default_owner |->
                                        IF k[1] = project THEN got.owners[k[2]]
                                        ELSE default_owner[k]]
                /\ pfields' = set_fields(project)
                /\ traised' = got.raised
                /\ tphase' = IF got.raised = None THEN "applied" ELSE "apply_raised"
    /\ UNCHANGED <<owner_role, template, votevars, membervars, favvars,
                   peoplevars, restvars>>

NextTemplate ==
    \/ \E tax \in Taxonomies, name \in Names : CreateRow(tax, name)
    \/ \E tax \in Taxonomies, name \in Names : DeleteRow(tax, name)
    \/ \E tax \in Taxonomies, name \in Names : SetDefault(tax, name)
    \/ \E slug \in RoleSlugs : CreateRole(slug)
    \/ \E slug \in RoleSlugs : DeleteRole(slug)
    \/ \E slug \in RoleSlugs : SetOwnerMembership(slug)
    \/ DeleteOwnerMembership
    \/ \E value \in BOOLEAN : SetKanban(value)
    \/ \E tax \in OwnTaxonomies : CreateOwnDefault(tax)
    \/ load_data_from_project(Source)
    \/ \E project \in {Target, Unsaved} : apply_to_project(project)

SpecTemplate == Init /\ [][NextTemplate]_vars

(***************************************************************************)
(* The favourites feed (users.services.get_favourites_list, spec.md 4.5).  *)
(* One project holds one entity of each kind; a feed item is the pair of   *)
(* an entity kind and the action (vote or watch) that made it a favourite. *)
(***************************************************************************)
\* name of the project, subject of the user story, the task and the issue
DisplayName == [project |-> <<"P", "r", "o">>, userstory |-> <<"S", "t", "o">>,
                task |-> <<"T", "a", "s">>, issue |-> <<"I", "s", "s">>]

\* The permission that lets a user see an entity of each kind.
ViewPermission == [project |-> "view_project", userstory |-> "view_us",
                   task |-> "view_tasks", issue |-> "view_issues"]

LowerChar(ch) ==
    CASE ch = "P" -> "p" [] ch = "S" -> "s" [] ch = "T" -> "t"
      [] ch = "I" -> "i" [] ch = "O" -> "o" [] ch = "R" -> "r"
      [] OTHER -> ch

Lower(str) == [i \in 1..Len(str) |-> LowerChar(str[i])]

\* str contains sub, compared character by character.
Contains(str, sub) ==
    \E i \in 1..(Len(str) - Len(sub) + 1) : SubSeq(str, i, i + Len(sub) - 1) = sub

\* The permissions of the role of the user's membership in the project.
RolePermissions(user) ==
    IF role_permissions[user] = <<>> THEN {} ELSE role_permissions[user][1]

\* Faulty variant: the anonymous grants of the project are not looked at.
can_view_members_only(viewer, kind) ==
    \/ ~is_private
    \/ ViewPermission[kind] \in RolePermissions(viewer)

\* The permission gate: the project is public, or the view permission of the
\* kind is among the viewer's role permissions or the project's anonymous ones.
can_view(viewer, kind) ==
    \/ ~is_private
    \/ ViewPermission[kind] \in (RolePermissions(viewer) \cup anon_permissions)

\* Faulty variant: one entry per entity, the vote entry winning over the watch.
favourites_of_one_per_entity(user) ==
    {[type |-> k, action |-> "vote"] : k \in {x \in FavKinds : <<user, x>> \in fav_votes}}
    \cup {[type |-> k, action |-> "watch"] :
              k \in {x \in FavKinds : <<user, x>> \in fav_watches
                                       /\ <<user, x>> \notin fav_votes}}

\* Every entity the user voted for and every entity the user watches.
favourites_of(user) ==
    {[type |-> k, action |-> "vote"] : k \in {x \in FavKinds : <<user, x>> \in fav_votes}}
    \cup {[type |-> k, action |-> "watch"] :
              k \in {x \in FavKinds : <<user, x>> \in fav_watches}}

\* Faulty variant: q is compared as it was typed.
matches_q_case_sensitive(kind, q) ==
    q = <<>> \/ Contains(DisplayName[kind], q)

\* The q filter: absent (empty), or a substring of the name ignoring case.
matches_q(kind, q) ==
    q = <<>> \/ Contains(Lower(DisplayName[kind]), Lower(q))

\* get_favourites_list(for_user, from_user, type=None, action=None, q=None)
get_favourites_list(for_user, from_user, type, action, q) ==
    {i \in favourites_of(for_user) :
        /\ can_view(from_user, i.type)
        /\ type = None \/ i.type = type
        /\ action = None \/ i.action = action
        /\ matches_q(i.type, q)}

\* VoteFactory(content_type, object_id, user): the user votes for the entity.
FavVote(user, kind) ==
    /\ <<user, kind>> \notin fav_votes
    /\ fav_votes' = fav_votes \cup {<<user, kind>>}
    /\ UNCHANGED <<fav_watches, is_private, anon_permissions, role_permissions,
                   votevars, membervars, tmplvars,
                   peoplevars, restvars>>

FavUnvote(user, kind) ==
    /\ <<user, kind>> \in fav_votes
    /\ fav_votes' = fav_votes \ {<<user, kind>>}
    /\ UNCHANGED <<fav_watches, is_private, anon_permissions, role_permissions,
                   votevars, membervars, tmplvars,
                   peoplevars, restvars>>

\* entity.add_watcher(user)
FavWatch(user, kind) ==
    /\ <<user, kind>> \notin fav_watches
    /\ fav_watches' = fav_watches \cup {<<user, kind>>}
    /\ UNCHANGED <<fav_votes, is_private, anon_permissions, role_permissions,
                   votevars, membervars, tmplvars,
                   peoplevars, restvars>>

FavUnwatch(user, kind) ==
    /\ <<user, kind>> \in fav_watches
    /\ fav_watches' = fav_watches \ {<<user, kind>>}
    /\ UNCHANGED <<fav_votes, is_private, anon_permissions, role_permissions,
                   votevars, membervars, tmplvars,
                   peoplevars, restvars>>

\* project.is_private = value; project.save()
SetPrivate(value) ==
    /\ is_private # value
    /\ is_private' = value
    /\ UNCHANGED <<fav_votes, fav_watches, anon_permissions, role_permissions,
                   votevars, membervars, tmplvars,
                   peoplevars, restvars>>

\* project.anon_permissions = permissions; project.save()
SetAnonPermissions(permissions) ==
    /\ anon_permissions # permissions
    /\ anon_permissions' = permissions
    /\ UNCHANGED <<fav_votes, fav_watches, is_private, role_permissions,
                   votevars, membervars, tmplvars,
                   peoplevars, restvars>>

\* MembershipFactory(project, role, user) with a role of the given permissions,
\* or the membership removed (<<>>).
SetMembership(user, granted) ==
    /\ role_permissions[user] # granted
    /\ role_permissions' = [role_permissions EXCEPT ![user] = granted]
    /\ UNCHANGED <<fav_votes, fav_watches, is_private, anon_permissions,
                   votevars, membervars, tmplvars,
                   peoplevars, restvars>>

\* The votes taken up: u1 votes for any entity, u2 for the project.
Voting == ({"u1"} \X FavKinds) \cup {<<"u2", "project">>}

NextFavourites ==
    \/ \E v \in Voting : FavVote(v[1], v[2])
    \/ \E v \in Voting : FavUnvote(v[1], v[2])
    \/ \E kind \in FavKinds : FavWatch("u1", kind)
    \/ \E kind \in FavKinds : FavUnwatch("u1", kind)
    \/ \E value \in BOOLEAN : SetPrivate(value)
    \/ \E permissions \in {{}, Perms} : SetAnonPermissions(permissions)
    \/ \E user \in Users, granted \in {<<>>} \cup {<<ps>> : ps \in PermSets} :
            SetMembership(user, granted)

SpecFavourites == Init /\ [][NextFavourites]_vars

(***************************************************************************)
(* Related people and notifications (models.py Project.get_related_people, *)
(* notifications/mixins.py WatchedModelMixin and send_notifications).      *)
(* The task belongs to the project.                                        *)
(***************************************************************************)
UserStates == {"active", "inactive", "system"}

\* What the steps of this part leave alone.
peopleframe == <<votes_vote, votes_votes, pc, req, tx, nreq, last,
                 membervars, tmplvars, favvars, restvars>>

\* Faulty variant: without .exclude(is_system=True).
Project_get_related_people_keeps_system(np, ref) ==
    LET related_people_q(u) ==
            \/ obj_owner[ref] # None /\ u = obj_owner[ref]
            \/ Project_get_q_watchers(np, ref, u)
    IN  {u \in Users : related_people_q(u) /\ user_state[u] # "inactive"}

\* Project.get_related_people: Q(id=owner_id) when owner_id is set, OR the
\* watchers' Q; then exclude(is_active=False), exclude(is_system=True), distinct().
Project_get_related_people(np, ref) ==
    LET related_people_q(u) ==
            \/ obj_owner[ref] # None /\ u = obj_owner[ref]
            \/ Project_get_q_watchers(np, ref, u)
        related_people == {u \in Users : related_people_q(u)}
        active == {u \in related_people : user_state[u] # "inactive"}
    IN  {u \in active : user_state[u] # "system"}

\* WatchedModelMixin.get_owner
get_owner(ref) == obj_owner[ref]

\* WatchedModelMixin.get_assigned_to: None when the model has no assigned_to.
get_assigned_to(ref) == IF IsProject(ref) THEN None ELSE assigned_to

\* WatchedModelMixin.get_participants: assigned_to and owner, None filtered out.
get_participants(ref) == {get_assigned_to(ref), get_owner(ref)} \ {None}

\* notifications.services.get_related_people: owner, assignee and watchers,
\* without the inactive and the system users.
services_get_related_people(w, ref) ==
    {u \in get_participants(ref) \cup services_get_watchers(w, ref) :
        user_state[u] = "active"}

\* obj.get_related_people(): Project's own method, WatchedModelMixin's for the rest.
get_related_people(w, np, ref) ==
    IF IsProject(ref) THEN Project_get_related_people(np, ref)
    ELSE services_get_related_people(w, ref)

\* The tables after obj.add_watcher(user) for each of the given users: a
\* Watched row for a task, the notify level watch for the project.
with_watchers(w, np, ref, users) ==
    IF IsProject(ref)
    THEN [w |-> w,
          np |-> [k \in DOMAIN np |->
                     IF k[1] = ref /\ k[2] \in users THEN "watch" ELSE np[k]]]
    ELSE [w |-> [k \in DOMAIN w |->
                    IF k[1] = ref /\ k[2] \in users /\ w[k] = 0 THEN 1 ELSE w[k]],
          np |-> np]

\* obj.add_watcher(user), outside a request.
obj_add_watcher(ref, user) ==
    LET t == with_watchers(watched, notify_policies, ref, {user})
    IN  /\ ref \in exists
        /\ watched' = t.w
        /\ notify_policies' = t.np
        /\ <<watched', notify_policies'>> # <<watched, notify_policies>>
        /\ UNCHANGED <<peopleframe, peoplevars, restvars>>

\* obj.remove_watcher(user), outside a request: the Watched row goes, or the
\* user's notify level for the project becomes ignore.
obj_remove_watcher(ref, user) ==
    /\ ref \in exists
    /\ IF IsProject(ref)
       THEN /\ notify_policies' = [notify_policies EXCEPT ![<<ref, user>>] = "ignore"]
            /\ UNCHANGED watched
       ELSE /\ watched' = [watched EXCEPT ![<<ref, user>>] = 0]
            /\ UNCHANGED notify_policies
    /\ <<watched', notify_policies'>> # <<watched, notify_policies>>
    /\ UNCHANGED <<peopleframe, peoplevars, restvars>>

\* obj.owner = user; obj.save()
SetOwner(ref, user) ==
    /\ obj_owner[ref] # user
    /\ obj_owner' = [obj_owner EXCEPT ![ref] = user]
    /\ UNCHANGED <<tables, peopleframe, assigned_to, user_state, notified>>

\* task.assigned_to = user; task.save()
SetAssignedTo(user) ==
    /\ assigned_to # user
    /\ assigned_to' = user
    /\ UNCHANGED <<tables, peopleframe, obj_owner, user_state, notified>>

\* user.is_active / user.is_system change.
SetUserState(user, state) ==
    /\ user_state[user] # state
    /\ user_state' = [user_state EXCEPT ![user] = state]
    /\ UNCHANGED <<tables, peopleframe, obj_owner, assigned_to, notified>>

\* What a comment can mention: nobody or one user.
Mentions == {{}} \cup {{u} : u \in Users}

\* services.analize_object_for_watchers: every user the comment mentions is
\* added to the watchers of the object.
analize_object_for_watchers(w, np, ref, mentions) ==
    with_watchers(w, np, ref, mentions)

\* services.send_notifications: the users to notify are the related people of
\* the object when it is called.
services_send_notifications(w, np, ref) == get_related_people(w, np, ref)

\* Faulty variant: the recipients are taken before the mentions are analized.
send_notifications_fan_out_first(w, np, ref, history) ==
    LET t == analize_object_for_watchers(w, np, ref, history.comment)
    IN  [w |-> t.w, np |-> t.np,
         recipients |-> services_send_notifications(w, np, ref)]

\* The two service calls of send_notifications, in the order of the code: the
\* tables they leave and the recipients.
send_notifications_steps(w, np, ref, history) ==
    LET t == analize_object_for_watchers(w, np, ref, history.comment)
    IN  [w |-> t.w, np |-> t.np,
         recipients |-> services_send_notifications(t.w, t.np, ref)]

\* Faulty variant: the _not_notify flag is not looked at.
returns_early_without_flag(history, _not_notify) ==
    IF history = <<>> THEN "no_history" ELSE "sent"

\* The two early returns of send_notifications: "if not history: return" and
\* "if self._not_notify: return"; "sent" when the call goes on.
returns_early(history, _not_notify) ==
    IF history = <<>> THEN "no_history"
    ELSE IF _not_notify THEN "not_notify"
    ELSE "sent"

\* WatchedResourceMixin.send_notifications(obj, history), which post_save and
\* pre_delete call as well: nothing happens on an empty history or under
\* _not_notify; otherwise the mentions are analized and the notification is
\* sent, each once.  history is <<>> when none is found.
send_notifications(ref, history, _not_notify) ==
    /\ LET result == returns_early(history, _not_notify)
           called == [NotNotified EXCEPT !.ref = ref, !.result = result,
                                         !.history = (history # <<>>),
                                         !._not_notify = _not_notify]
       IN  IF result # "sent"
           THEN /\ notified' = called
                /\ UNCHANGED <<watched, notify_policies>>
           ELSE LET steps == send_notifications_steps(watched, notify_policies,
                                                      ref, history[1])
                IN  /\ watched' = steps.w
                    /\ notify_policies' = steps.np
                    /\ notified' = [called EXCEPT
                           !.mentions = history[1].comment,
                           !.watchers_before =
                               get_watchers(watched, notify_policies, ref),
                           !.recipients = steps.recipients,
                           !.analized = 1,
                           !.sent = 1]
    /\ UNCHANGED <<peopleframe, obj_owner, assigned_to, user_state>>

NextPeople ==
    \/ \E ref \in Refs, user \in Users : obj_add_watcher(ref, user)
    \/ \E ref \in Refs, user \in Users : obj_remove_watcher(ref, user)
    \/ \E ref \in Refs, user \in Users \cup {None} : SetOwner(ref, user)
    \/ \E user \in Users \cup {None} : SetAssignedTo(user)
    \/ \E user \in Users, state \in UserStates : SetUserState(user, state)

SpecPeople == Init /\ [][NextPeople]_vars

\* Changes with comments on the project and the task of a fixed owner, between
\* changes of the watchers and of the users.
NextNotifications ==
    \/ \E ref \in Refs, user \in Users : obj_add_watcher(ref, user)
    \/ \E ref \in Refs, user \in Users : obj_remove_watcher(ref, user)
    \/ \E user \in Users, state \in UserStates : SetUserState(user, state)
    \/ \E ref \in Refs, mentions \in Mentions, _not_notify \in BOOLEAN :
           \E history \in {<<>>, <<[comment |-> mentions]>>} :
               send_notifications(ref, history, _not_notify)

SpecNotifications == Init /\ [][NextNotifications]_vars

(***************************************************************************)
(* WatchedResourceModelSerializer.restore_object (notifications/mixins.py):*)
(* the watchers field of an update.                                        *)
(***************************************************************************)
\* The ids a watchers list can hold: the two users and the id of no user.
WatcherIds == Users \cup {"u9"}

\* The tables after obj.remove_watcher(user) for each of the given users: the
\* Watched row goes, or the user's notify level for the project becomes ignore.
without_watchers(w, np, ref, users) ==
    IF IsProject(ref)
    THEN [w |-> w,
          np |-> [k \in DOMAIN np |->
                     IF k[1] = ref /\ k[2] \in users THEN "ignore" ELSE np[k]]]
    ELSE [w |-> [k \in DOMAIN w |->
                    IF k[1] = ref /\ k[2] \in users THEN 0 ELSE w[k]],
          np |-> np]

\* Faulty variant: the old watchers that the new list leaves out are kept.
removing_watcher_ids_none(old_watcher_ids, new_watcher_ids) == {}

\* old_watcher_ids.difference(new_watcher_ids)
removing_watcher_ids(old_watcher_ids, new_watcher_ids) ==
    old_watcher_ids \ new_watcher_ids

\* new_watcher_ids.difference(old_watcher_ids)
adding_watcher_ids(old_watcher_ids, new_watcher_ids) ==
    new_watcher_ids \ old_watcher_ids

\* User.objects.filter(id__in=ids)
User_objects_filter(ids) == Users \cap ids

\* restore_object(attrs, instance): attrs holds the watchers list, <<>> when the
\* field is absent; instance is <<>> (None) when the object is being created.
\* validate_watchers is an external collaborator: it passes or it raises.
restore_object(attrs, instance, valid) ==
    LET new_watcher_ids == IF attrs = <<>> THEN {} ELSE attrs[1]
        call == [instance |-> instance, watchers |-> attrs, old |-> {},
                 result |-> "Ok"]
    IN  /\ IF ~valid
           THEN /\ restored' = [call EXCEPT !.result = "ValidationError"]
                /\ UNCHANGED <<watched, notify_policies>>
           ELSE IF instance = <<>> \/ Cardinality(new_watcher_ids) = 0
           THEN /\ restored' = call
                /\ UNCHANGED <<watched, notify_policies>>
           ELSE LET obj == instance[1]
                    old_watcher_ids == get_watchers(watched, notify_policies, obj)
                    adding_users == User_objects_filter(
                        adding_watcher_ids(old_watcher_ids, new_watcher_ids))
                    removing_users == User_objects_filter(
                        removing_watcher_ids(old_watcher_ids, new_watcher_ids))
                    added == with_watchers(watched, notify_policies, obj,
                                           adding_users)
                    removed == without_watchers(added.w, added.np, obj,
                                                removing_users)
                IN  /\ watched' = removed.w
                    /\ notify_policies' = removed.np
                    /\ restored' = [call EXCEPT !.old = old_watcher_ids]
        /\ UNCHANGED <<votes_vote, votes_votes, pc, req, tx, nreq, last, membervars,
                       tmplvars, favvars, peoplevars, readvars, pointsvars, slugvars>>

NextSerializer ==
    \/ \E ref \in Refs, user \in Users : obj_add_watcher(ref, user)
    \/ \E ref \in Refs, user \in Users : obj_remove_watcher(ref, user)
    \/ \E instance \in {<<>>} \cup {<<ref>> : ref \in Refs}, ids \in SUBSET WatcherIds, valid \in BOOLEAN :
           \E attrs \in {<<>>, <<ids>>} : restore_object(attrs, instance, valid)

SpecSerializer == Init /\ [][NextSerializer]_vars

(***************************************************************************)
(* Project.update_role_points (models.py).  One project with its roles,    *)
(* its Points rows and two user stories; a role of another project.        *)
(***************************************************************************)
\* A role that belongs to another project.
ForeignRole == "rx"

\* The Points rows by name: "one" has the value 1, the others the value None.
NullPointsNames == {"?", "null"}
PointsValueIsNone(name) == name \in NullPointsNames

\* What the steps of this part leave alone.
pointsframe == <<votevars, membervars, tmplvars, favvars, peoplevars, readvars, restored,
                 slugvars>>

\* role.computable = ...; role.save(), Role.objects.create(project=P, ...) and
\* role.delete(), which takes the RolePoints rows of the role with it.
SetRole(role, kind) ==
    /\ computable[role] # kind
    /\ computable' = [computable EXCEPT ![role] = kind]
    /\ role_points' = IF kind = "none" THEN {rp \in role_points : rp[2] # role}
                      ELSE role_points
    /\ UNCHANGED <<points, urp, pointsframe>>

\* Points.objects.create(project=P, name=name, value=None)
CreatePoints(name) ==
    /\ name \notin points
    /\ points' = points \cup {name}
    /\ UNCHANGED <<computable, role_points, urp, pointsframe>>

\* RolePoints.objects.create(user_story=us, role=role, points=<the row "one">);
\* unique_together (user_story, role).
CreateRolePoints(us, role) ==
    /\ role \in ProjectRoles => computable[role] # "none"
    /\ \A rp \in role_points : ~(rp[1] = us /\ rp[2] = role)
    /\ role_points' = role_points \cup {<<us, role, "one">>}
    /\ UNCHANGED <<computable, points, urp, pointsframe>>

\* Faulty variant: the null-valued rows the project has are not found.
none_points_of_nothing(pts) == {}

\* self.points.filter(value=None)
none_points_of(pts) == {name \in pts : PointsValueIsNone(name)}

\* none_points[0] under Meta.ordering (project, order, name).
first_none_points(none_points) ==
    IF "?" \in none_points THEN "?" ELSE "null"

\* Faulty variant: the RolePoints rows of the other roles are not removed.
rp_query_none(rps, croles) == {}

\* rp_query: the RolePoints rows of the project's user stories whose role is
\* not among croles.
rp_query(rps, croles) == {rp \in rps : rp[1] \in UserStories /\ rp[2] \notin croles}

\* Project.update_role_points(user_stories): what it leaves in the Points and
\* RolePoints tables.  user_stories is <<>> for None, else <<the stories>>.
update_role_points_result(comp, pts, rps, user_stories) ==
    LET croles == {role \in ProjectRoles : comp[role] = "computable"}
        stories == IF user_stories = <<>> THEN UserStories ELSE user_stories[1]
        none_points == none_points_of(pts)
        null_points_value == IF none_points # {} THEN first_none_points(none_points)
                             ELSE "?"
        usroles(us) == {rp[2] : rp \in {x \in rps : x[1] = us}}
        new_rolepoints == {<<us, role, null_points_value>> :
                              us \in stories, role \in croles} 
        created == {rp \in new_rolepoints : rp[2] \notin usroles(rp[1])}
        all == rps \cup created
    IN  IF Cardinality(croles) = 0
        THEN [points |-> pts, role_points |-> rps]
        ELSE [points |-> pts \cup {null_points_value},
              role_points |-> all \ rp_query(all, croles)]

update_role_points(user_stories) ==
    /\ LET r == update_role_points_result(computable, points, role_points, user_stories)
       IN  /\ points' = r.points
           /\ role_points' = r.role_points
    /\ urp' = [tick |-> ~urp.tick, user_stories |-> user_stories]
    /\ UNCHANGED <<computable, pointsframe>>

NextRolePoints ==
    \/ \E role \in ProjectRoles, kind \in {"none", "computable", "plain"} :
           SetRole(role, kind)
    \/ CreatePoints("null")
    \/ \E us \in UserStories, role \in ProjectRoles \cup {ForeignRole} :
           CreateRolePoints(us, role)
    \/ \E user_stories \in {<<>>, <<{"us1"}>>} : update_role_points(user_stories)

SpecRolePoints == Init /\ [][NextRolePoints]_vars

(***************************************************************************)
(* Project.save and the slug of a project (taiga/projects/models.py).  A   *)
(* slug is a tuple: <<"a">> is "a", <<"a", 1>> is "a-1", <<"a", 1, 2>> is  *)
(* "a-1-2"; <<>> is the empty slug.                                        *)
(***************************************************************************)
\* "{owner.username}-{name}" of the projects that are saved.
BaseNames == {"A", "a", "b"}

\* The slugs a caller sets before save().
GivenSlugs == {<<"a">>, <<"a", 1>>}

\* The cut-off of the loop in Project.save (100 in the source).
SlugTries == 1

slugframe == <<votevars, membervars, tmplvars, favvars, peoplevars, readvars, restored,
               pointsvars>>

\* "{}-{}".format(base_slug, i)
Suffixed(slug, i) == Append(slug, i)

\* The slug of a text: lower case, so "A" and "a" have the same slug.
slugify(value) == IF value \in {"A", "a"} THEN <<"a">> ELSE <<value>>

\* Faulty variant: no row is ever found with the slug.
slug_never_exists(slug, taken) == FALSE

\* type(self).objects.filter(slug=slug).exists()
slug_exists(slug, taken) == slug \in taken

RECURSIVE potential_slug(_, _, _)
\* slugify_uniquely's search: the base, then base-1, base-2, ... until no row
\* of the model has the slug.
potential_slug(base, suffix, taken) ==
    LET potential == IF suffix = 0 THEN base ELSE Suffixed(base, suffix)
    IN  IF ~slug_exists(potential, taken)
        THEN potential
        ELSE potential_slug(base, suffix + 1, taken)

\* slugify_uniquely(base_name, self.__class__)
slugify_uniquely(value, taken) == potential_slug(slugify(value), 0, taken)

RECURSIVE slug_loop(_, _, _, _)
\* for i in arithmetic_progression(): ... with i = 1, 2, 3, ...
slug_loop(base_slug, slug, i, taken) ==
    IF ~slug_exists(slug, taken) \/ i > SlugTries
    THEN slug
    ELSE slug_loop(base_slug, Suffixed(base_slug, i), i + 1, taken)

\* The slug Project.save assigns to self.slug.
save_slug(slug, base_name, taken) ==
    IF slug = <<>>
    THEN LET base_slug == slugify_uniquely(base_name, taken)
         IN  slug_loop(base_slug, base_slug, 1, taken)
    ELSE slug

\* The slugs of the stored projects.
StoredSlugs == {project_slug[q] : q \in SlugProjects} \ {<<>>}

\* Project.save() of an instance whose slug field is slug; super().save()
\* writes the row unless another row has the slug (unique=True).
Project_save(project, slug, base_name) ==
    LET after == save_slug(slug, base_name, StoredSlugs)
        unique == \A q \in SlugProjects \ {project} : project_slug[q] # after
    IN  /\ project_slug' = IF unique THEN [project_slug EXCEPT ![project] = after]
                                     ELSE project_slug
        /\ slug_saved' = [project |-> project, before |-> slug, after |-> after,
                     result |-> IF unique THEN "saved" ELSE "IntegrityError",
                     tick |-> ~slug_saved.tick]
        /\ UNCHANGED slugframe

\* The row of a project is deleted.
Project_delete(project) ==
    /\ project_slug[project] # <<>>
    /\ project_slug' = [project_slug EXCEPT ![project] = <<>>]
    /\ UNCHANGED <<slug_saved, slugframe>>

NextSlugs ==
    \/ \E project \in SlugProjects, slug \in GivenSlugs \cup {<<>>},
          base_name \in BaseNames : Project_save(project, slug, base_name)
    \/ \E project \in SlugProjects : Project_delete(project)

SpecSlugs == Init /\ [][NextSlugs]_vars

(***************************************************************************)
(* The voters and watchers views (VotersViewSetMixin in                    *)
(* votes/mixins/viewsets.py, WatchersViewSetMixin in                       *)
(* notifications/mixins.py) and the deletion of objects.  The task belongs *)
(* to the project.                                                         *)
(***************************************************************************)
\* The primary keys a request can name: the two users and the key of no user.
Pks == Users \cup {"u9"}

\* What the steps of this part leave alone.
readframe == <<pc, req, tx, nreq, last, membervars, tmplvars, favvars, peoplevars>>

\* f.VoteFactory.create(content_object=obj, user=user): the Vote row, and the
\* Votes row with its count.
VoteFactory_create(ref, user) ==
    /\ ref \in exists
    /\ votes_vote[<<ref, user>>] = 0
    /\ votes_vote' = [votes_vote EXCEPT ![<<ref, user>>] = 1]
    /\ votes_votes' = {r \in votes_votes : r[1] # ref}
                        \cup {<<ref, attach_votes_count_to_queryset(votes_votes, ref) + 1>>}
    /\ UNCHANGED <<watched, notify_policies, readframe, readvars, restored,
                   pointsvars, slugvars>>

\* The tables after the objects refs are deleted, ref the one asked for.
deleted_with(refs, ref) ==
    [vv |-> [k \in DOMAIN votes_vote |-> IF k[1] \in refs THEN 0 ELSE votes_vote[k]],
     w  |-> [k \in DOMAIN watched |-> IF k[1] \in refs THEN 0 ELSE watched[k]],
     np |-> [k \in DOMAIN notify_policies |->
                IF k[1] \in refs THEN NoRow ELSE notify_policies[k]]]

\* obj.delete(): the object goes, the task goes with its project, and so do
\* the rows that refer to what is deleted.
delete_object(ref) ==
    /\ ref \in exists
    /\ LET refs == IF IsProject(ref) THEN Refs ELSE {ref}
           t == deleted_with(refs, ref)
       IN  /\ exists' = exists \ refs
           /\ votes_vote' = t.vv
           /\ watched' = t.w
           /\ notify_policies' = t.np
    /\ UNCHANGED <<votes_votes, readframe, answer, restored, pointsvars, slugvars>>

\* get_object_or_404(self.resource_model, pk=resource_id)
get_object_or_404(ref) == ref \in exists

\* Faulty variant: the pk is looked up among all the users.
voters_get_any_user(vv, ref, pk) == pk \in Users

\* services.get_voters(resource).get(pk=pk) finds a user.
voters_get(vv, ref, pk) == pk \in get_voters(vv, ref)

\* resource.get_watchers().get(pk=pk) finds a user.
watchers_get(w, np, ref, pk) == pk \in get_watchers(w, np, ref)

\* A read is answered: nothing but the answer changes.
Answer(view, ref, pk, status, data) ==
    /\ answer' = [view |-> view, ref |-> ref, pk |-> pk,
                  status |-> status, data |-> data]
    /\ UNCHANGED <<tables, readframe, exists, restored, pointsvars, slugvars>>

\* VotersViewSetMixin.retrieve; permitted is what check_permissions decides.
VotersViewSetMixin_retrieve(ref, pk, permitted) ==
    IF ~get_object_or_404(ref) THEN Answer("voter", ref, pk, "NotFound", {})
    ELSE IF ~permitted THEN Answer("voter", ref, pk, "Forbidden", {})
    ELSE IF voters_get(votes_vote, ref, pk) THEN Answer("voter", ref, pk, "Ok", {pk})
    ELSE Answer("voter", ref, pk, "NotFound", {})

\* VotersViewSetMixin.list over get_queryset.
VotersViewSetMixin_list(ref, permitted) ==
    IF ~get_object_or_404(ref) THEN Answer("voters", ref, "u1", "NotFound", {})
    ELSE IF ~permitted THEN Answer("voters", ref, "u1", "Forbidden", {})
    ELSE Answer("voters", ref, "u1", "Ok", get_voters(votes_vote, ref))

\* WatchersViewSetMixin.retrieve
WatchersViewSetMixin_retrieve(ref, pk, permitted) ==
    IF ~get_object_or_404(ref) THEN Answer("watcher", ref, pk, "NotFound", {})
    ELSE IF ~permitted THEN Answer("watcher", ref, pk, "Forbidden", {})
    ELSE IF watchers_get(watched, notify_policies, ref, pk)
    THEN Answer("watcher", ref, pk, "Ok", {pk})
    ELSE Answer("watcher", ref, pk, "NotFound", {})

\* WatchersViewSetMixin.list over get_queryset.
WatchersViewSetMixin_list(ref, permitted) ==
    IF ~get_object_or_404(ref) THEN Answer("watchers", ref, "u1", "NotFound", {})
    ELSE IF ~permitted THEN Answer("watchers", ref, "u1", "Forbidden", {})
    ELSE Answer("watchers", ref, "u1", "Ok",
                get_watchers(watched, notify_policies, ref))

NextReads ==
    \/ \E ref \in Refs, user \in Users : VoteFactory_create(ref, user)
    \/ \E ref \in Refs, user \in Users : obj_add_watcher(ref, user)
    \/ \E ref \in Refs, user \in Users : obj_remove_watcher(ref, user)
    \/ \E ref \in Refs : delete_object(ref)
    \/ \E ref \in Refs, pk \in Pks, permitted \in BOOLEAN :
           VotersViewSetMixin_retrieve(ref, pk, permitted)
    \/ \E ref \in Refs, permitted \in BOOLEAN : VotersViewSetMixin_list(ref, permitted)
    \/ \E ref \in Refs, pk \in Pks, permitted \in BOOLEAN :
           WatchersViewSetMixin_retrieve(ref, pk, permitted)
    \/ \E ref \in Refs, permitted \in BOOLEAN : WatchersViewSetMixin_list(ref, permitted)

SpecReads == Init /\ [][NextReads]_vars

\* Votes and watches requested while objects are deleted.
NextDelete ==
    \/ \E p \in Workers, op \in {"upvote", "watch"}, ref \in Refs, user \in Users :
            Request(p, op, ref, user)
    \/ \E p \in Workers : check_permissions(p)
    \/ \E p \in Workers : upvote(p)
    \/ \E p \in Workers : watch(p)
    \/ \E p \in Workers : commit(p)
    \/ \E p \in Workers : rollback(p)
    \/ \E ref \in Refs : delete_object(ref)

SpecDelete == Init /\ [][NextDelete]_vars

(***************************************************************************)
(* Properties of the vote and watch stores.                                *)
(***************************************************************************)
\* The number of Vote rows of an object.
NumVotes(vv, ref) == SumCounts({<<u, vv[<<ref, u>>]>> : u \in Users})

VotesCount(ref) == attach_votes_count_to_queryset(votes_votes, ref)

\* Worker p answers its request in this step.
Completes(p) == pc[p] # "idle" /\ pc'[p] = "idle"

Key(p) == <<req[p].ref, req[p].user>>

\* The answer logged last is for the same call as the one p serves.
LastIsSameCall(p, op) ==
    /\ last.op = op
    /\ last.ref = req[p].ref
    /\ last.user = req[p].user

\* C1: in every reachable state each object has at most one votes_votes row, and
\* the count it stores (0 when there is no row yet) is the number of Vote rows
\* of the object.
C1_CountMatchesRows ==
    \A ref \in Refs :
        /\ Cardinality({r \in votes_votes : r[1] = ref}) <= 1
        /\ VotesCount(ref) = NumVotes(votes_vote, ref)

\* A vote was added and removed: the counter row stays, at zero.
C1_Witness ==
    \E ref \in Refs : <<ref, 0>> \in votes_votes /\ NumVotes(votes_vote, ref) = 0

\* C2: an upvote by a user who already voted on the object changes neither the
\* Vote rows nor the count; and an upvote answered right after the same user's
\* upvote of an object that had no votes leaves votes == 1 and voters == {user}.
C2_AddVoteIdempotent ==
    [][\A p \in Workers :
          (Completes(p) /\ req[p].op = "upvote" /\ last'.response = "Ok") =>
              /\ votes_vote[Key(p)] > 0 =>
                    /\ votes_vote' = votes_vote
                    /\ votes_votes' = votes_votes
              /\ ( /\ LastIsSameCall(p, "upvote")
                   /\ last.response = "Ok"
                   /\ last.before.votes = 0
                   /\ get_voters(votes_vote, req[p].ref) = {req[p].user} ) =>
                    /\ last'.after.votes = 1
                    /\ get_voters(votes_vote', req[p].ref) = {req[p].user}
      ]_vars

\* The second of two upvotes of one object by one user was answered Ok.
C2_Witness ==
    /\ last.op = "upvote"
    /\ last.response = "Ok"
    /\ last.before.is_voted
    /\ last.before.votes = 1
    /\ last.after.votes = 1
    /\ last.after.is_voted

\* C3: an upvote by a user who had not voted raises votes by one and makes
\* is_voted true for the user; the same user's downvote answered right after it
\* returns votes and is_voted to their values before the upvote.
C3_VoteRoundTrip ==
    [][\A p \in Workers :
          ( /\ Completes(p)
            /\ req[p].op = "downvote"
            /\ last'.response = "Ok"
            /\ LastIsSameCall(p, "upvote")
            /\ last.response = "Ok"
            /\ ~last.before.is_voted ) =>
              /\ last.after.votes = last.before.votes + 1
              /\ last.after.is_voted
              /\ last'.after.votes = last.before.votes
              /\ last'.after.is_voted = last.before.is_voted
      ]_vars

\* A downvote removed the vote its user had cast.
C3_Witness ==
    /\ last.op = "downvote"
    /\ last.response = "Ok"
    /\ last.before.is_voted
    /\ last.before.votes = 1
    /\ ~last.after.is_voted
    /\ last.after.votes = 0

\* C4: when two upvotes of one object by two distinct users who had not voted
\* overlap in time, and neither is refused or hit by a failing transaction, both
\* are answered Ok and votes ends two above its value before the first.
C4_ConcurrentAddVotes ==
    [][\A p \in Workers :
          ( /\ Completes(p)
            /\ req[p].op = "upvote"
            /\ req[p].overtaken
            /\ last.op = "upvote"
            /\ last.ref = req[p].ref
            /\ last.user # req[p].user
            /\ ~last.before.is_voted
            /\ ~last'.before.is_voted
            /\ last.response \notin {"Forbidden", "ServerError"}
            /\ last'.response \notin {"Forbidden", "ServerError"} ) =>
              /\ last.response = "Ok"
              /\ last'.response = "Ok"
              /\ last'.after.votes = last.before.votes + 2
      ]_vars

\* An upvote that overlapped another user's upvote brought votes from 1 to 2.
C4_Witness ==
    /\ last.op = "upvote"
    /\ last.concurrent
    /\ last.response = "Ok"
    /\ ~last.before.is_voted
    /\ last.before.votes = 1
    /\ last.after.votes = 2

\* C5: no (object, user) pair ever has more than one Vote row or more than one
\* Watched row; and of two overlapping identical calls (same action, object and
\* user) that are both answered Ok, the second changes nothing, so that votes
\* moves by exactly one when the first call changed it.
C5_IdenticalCallsCollapse ==
    /\ [](\A k \in Refs \X Users : votes_vote[k] <= 1 /\ watched[k] <= 1)
    /\ [][\A p \in Workers :
             ( /\ Completes(p)
               /\ req[p].overtaken
               /\ LastIsSameCall(p, req[p].op)
               /\ last.response = "Ok"
               /\ last'.response = "Ok" ) =>
                 /\ tables' = tables
                 /\ (req[p].op = "upvote" /\ ~last.before.is_voted) =>
                        last'.after.votes = last.before.votes + 1
                 /\ (req[p].op = "downvote" /\ last.before.is_voted) =>
                        last'.after.votes = last.before.votes - 1
         ]_vars

\* The second of two overlapping upvotes of one object by one user was answered.
C5_Witness ==
    /\ last.op = "upvote"
    /\ last.concurrent
    /\ last.response = "Ok"
    /\ last.before.is_voted
    /\ last.after.votes = 1
    /\ votes_vote[<<last.ref, last.user>>] = 1

\* C6: no stored count is ever below zero; a downvote by a user with no Vote row
\* on the object changes no table and, once permitted, is answered Ok; and a
\* downvote that removes a vote lowers the stored count by exactly one.
C6_CountNeverNegative ==
    /\ [](\A r \in votes_votes : r[2] >= 0)
    /\ [][\A p \in Workers :
             (Completes(p) /\ req[p].op = "downvote") =>
                 /\ votes_vote[Key(p)] = 0 =>
                       /\ tables' = tables
                       /\ pc[p] # "check" => last'.response = "Ok"
                 /\ (votes_vote[Key(p)] > 0 /\ last'.response = "Ok") =>
                       attach_votes_count_to_queryset(votes_votes', req[p].ref)
                           = VotesCount(req[p].ref) - 1
         ]_vars

\* A downvote by a user who had not voted was answered Ok.
C6_Witness ==
    /\ last.op = "downvote"
    /\ last.response = "Ok"
    /\ ~last.before.is_voted
    /\ last.before.votes = 0
    /\ last.after.votes = 0

\* C7: a request whose transaction fails leaves every table as it was; and in
\* every step the Vote rows of an object change exactly when its count does.
C7_FailedTransactionChangesNothing ==
    [][/\ \A p \in Workers :
            ( /\ Completes(p)
              /\ last'.response \in {"ServerError", "ConsistencyFault", "DoesNotExist"} )
                => tables' = tables
       /\ \A ref \in Refs :
            (NumVotes(votes_vote', ref) # NumVotes(votes_vote, ref))
                <=> (attach_votes_count_to_queryset(votes_votes', ref) # VotesCount(ref))
      ]_vars

\* A transaction that had staged a write failed.
C7_Witness ==
    /\ last.response = "ServerError"
    /\ last.op \in {"upvote", "watch"}
    /\ ~last.after.is_voted
    /\ ~last.after.is_watched

C9_MembershipInvariant ==
    /\ \A m1, m2 \in memberships :
          (m1.user # None /\ m1.user = m2.user /\ m1.project = m2.project)
              => m1 = m2
    /\ mlast.result # "none" =>
          /\ (mlast.user # None /\ mlast.second) => mlast.result = "ValidationError"
          /\ mlast.user = None => mlast.result = "saved"

\* A second membership of a user was refused in a project that also holds two
\* invitations, the second of which was saved.
C9_Witness ==
    /\ mlast.result = "ValidationError"
    /\ mlast.user # None
    /\ mlast.second
    /\ \E m1, m2 \in memberships :
          /\ m1.id # m2.id
          /\ m1.user = None /\ m2.user = None
          /\ m1.project = mlast.project /\ m2.project = mlast.project

(***************************************************************************)
(* Properties of project templates.                                        *)
(***************************************************************************)
\* C10: template round trip.  For every saved project P from which a template
\* loads (its owner has a membership, or it has a role), whatever its default_*
\* pointers, and the saved project P2 without taxonomy rows,
\* load_data_from_project(P) followed by apply_to_project(P2) completes, and
\* then P2 has for each taxonomy the rows of P by name and number, and each
\* default_* of P2 names the row P's default names.
C10_TemplateRoundTrip ==
    (ttarget = Target /\ \A t \in OwnTaxonomies : OwnName \notin rows[<<Target, t>>]) =>
    /\ tphase # "apply_raised"
    /\ tphase = "applied" =>
          \A t \in Taxonomies :
              /\ rows[<<Target, t>>] = rows[<<Source, t>>]
              /\ Cardinality(rows[<<Target, t>>]) = Cardinality(rows[<<Source, t>>])
              /\ defaults[<<Target, t>>] = defaults[<<Source, t>>]

\* C11: apply_to_project on a project instance without id raises before anything
\* changes: no taxonomy row and no role is created, and creation_template, the
\* module flags and the default_* attributes of the instance stay as they were.
C11_UnsavedProjectRefused ==
    [][(tphase = "loaded" /\ ttarget' = Unsaved) =>
          /\ traised' = "Exception"
          /\ tphase' = "apply_raised"
          /\ rows' = rows
          /\ roles' = roles
          /\ defaults' = defaults
          /\ pfields' = pfields
      ]_vars

\* A template holding a row, a default, a role and a module flag that differs
\* from the instance's was applied to the unsaved instance and refused.
C11_Witness ==
    /\ ttarget = Unsaved
    /\ traised = "Exception"
    /\ template.snapshot["points"] # {}
    /\ template.default_options["points"] # None
    /\ Len(template.roles) > 0
    /\ template.is_kanban_activated # pfields[Unsaved].is_kanban_activated
    /\ \A t \in Taxonomies : rows[<<Unsaved, t>>] = {}

(***************************************************************************)
(* Properties of the query annotations.                                    *)
(***************************************************************************)
\* C12: for the anonymous viewer every object reports is_voted false and
\* is_watched false whatever Vote and Watched rows exist, neither per-user
\* attribute is attached to the query, and votes_count and the watchers are
\* attached all the same.
C12_AnonymousViewer ==
    \A ref \in Refs :
        LET voted == attach_votes_attrs_to_queryset(votes_vote, votes_votes,
                                                    Anonymous, ref)
            seen == attach_watchers_attrs_to_queryset(watched, notify_policies,
                                                      Anonymous, ref)
            d == Detail(votes_vote, votes_votes, watched, notify_policies,
                        Anonymous, ref)
        IN  /\ ~d.is_voted
            /\ ~d.is_watched
            /\ voted.is_voted = Unattached
            /\ seen.is_watched = Unattached
            /\ voted.votes_count = <<VotesCount(ref)>>
            /\ d.votes = VotesCount(ref)
            /\ d.watchers = get_watchers(watched, notify_policies, ref)

\* An object has a vote and a watcher, which the anonymous viewer is shown.
C12_Witness ==
    \E ref \in Refs :
        LET d == Detail(votes_vote, votes_votes, watched, notify_policies,
                        Anonymous, ref)
        IN  /\ d.votes = 1
            /\ d.watchers # {}
            /\ NumVotes(votes_vote, ref) = 1

\* The count stored in the votes_votes row of an object, 0 without a row.
StoredCount(ref) ==
    LET stored == {r \in votes_votes : r[1] = ref}
    IN  IF stored = {} THEN 0 ELSE (CHOOSE r \in stored : TRUE)[2]

\* C13: the votes value reported for an object, to any viewer, is the count its
\* votes_votes row stores, and 0 when the object has no such row; a serialized
\* object to which no votes_count was attached reports 0.
C13_VotesIsStoredCount ==
    /\ \A ref \in Refs, viewer \in Viewers :
          get_votes_counter(attach_votes_attrs_to_queryset(
              votes_vote, votes_votes, viewer, ref)) = StoredCount(ref)
    /\ get_votes_counter([votes_count |-> Unattached, is_voted |-> Unattached]) = 0

\* One object has a row storing 1 and the other object has no row.
C13_Witness ==
    \E r1, r2 \in Refs :
        /\ <<r1, 1>> \in votes_votes
        /\ \A r \in votes_votes : r[1] # r2
        /\ Detail(votes_vote, votes_votes, watched, notify_policies,
                  "u1", r1).votes = 1

\* The is_voted value a viewer is shown for an object, over given tables.
IsVoted(vv, vs, user, ref) ==
    get_is_voted(attach_votes_attrs_to_queryset(vv, vs, user, ref))

\* C14: for an authenticated viewer V, is_voted of an object is true exactly when
\* a Vote row of (object, V) exists; it is the same whatever the votes_votes rows
\* hold and whatever rows the other users have.
C14_IsVotedIffVoteRow ==
    \A ref \in Refs, V \in Users :
        /\ IsVoted(votes_vote, votes_votes, V, ref) <=> votes_vote[<<ref, V>>] > 0
        /\ \A vs \in {{}, {<<ref, 2>>}} :
              IsVoted(votes_vote, vs, V, ref) <=> votes_vote[<<ref, V>>] > 0
        /\ \A U \in Users \ {V}, n \in {0, 1} :
              IsVoted([votes_vote EXCEPT ![<<ref, U>>] = n], votes_votes, V, ref)
                  <=> votes_vote[<<ref, V>>] > 0

\* One user has voted on an object and the other has not.
C14_Witness ==
    \E ref \in Refs :
        /\ votes_vote[<<ref, "u1">>] = 1
        /\ votes_vote[<<ref, "u2">>] = 0
        /\ Detail(votes_vote, votes_votes, watched, notify_policies, "u1", ref).is_voted
        /\ ~Detail(votes_vote, votes_votes, watched, notify_policies, "u2", ref).is_voted

(***************************************************************************)
(* Properties of the favourites feed.                                      *)
(***************************************************************************)
\* User A has voted for and watches the project, the user story, the task and
\* the issue, and the project is public.
FavouritesScenario ==
    /\ ~is_private
    /\ \A k \in FavKinds : <<"u1", k>> \in fav_votes /\ <<"u1", k>> \in fav_watches

\* C15 as stated: in the scenario the feed of A seen by A has 8 items, the type
\* filter "project" leaves 1 item and the action filter "watch" leaves 4.
C15_FavouritesScenario_Original ==
    FavouritesScenario =>
        /\ Cardinality(get_favourites_list("u1", "u1", None, None, <<>>)) = 8
        /\ Cardinality(get_favourites_list("u1", "u1", "project", None, <<>>)) = 1
        /\ Cardinality(get_favourites_list("u1", "u1", None, "watch", <<>>)) = 4

\* C15: in the scenario the feed of A seen by A has 8 items, the type filter
\* "project" leaves 2 items, the vote entry and the watch entry of the project,
\* and the action filter "watch" leaves 4.
C15_FavouritesScenario ==
    FavouritesScenario =>
        /\ Cardinality(get_favourites_list("u1", "u1", None, None, <<>>)) = 8
        /\ get_favourites_list("u1", "u1", "project", None, <<>>)
              = {[type |-> "project", action |-> "vote"],
                 [type |-> "project", action |-> "watch"]}
        /\ Cardinality(get_favourites_list("u1", "u1", None, "watch", <<>>)) = 4

\* The scenario, with a vote of the other user on the project as well.
C15_Witness ==
    /\ FavouritesScenario
    /\ <<"u2", "project">> \in fav_votes
    /\ Cardinality(get_favourites_list("u1", "u1", "project", None, <<>>)) = 2

\* Values of q with the entity kinds whose name or subject contains them,
\* ignoring case.
QCases ==
    { << <<"i", "s">>, {"issue"} >>,
      << <<"I", "S">>, {"issue"} >>,
      << <<"S">>, {"userstory", "task", "issue"} >>,
      << <<"t", "O">>, {"userstory"} >>,
      << <<"R", "o">>, {"project"} >>,
      << <<"r", "o", "p">>, {} >>,
      << <<"x">>, {} >> }

\* C16: of the feed of a user as a viewer sees it, the type filter keeps exactly
\* the items of that kind, the vote entry and the watch entry alike (2 items for
\* an entity both voted and watched), and nothing for an unknown kind; the action
\* filter keeps exactly the vote entries or exactly the watch entries; the q
\* filter keeps exactly the items whose name or subject contains q ignoring
\* case, and nothing when no name matches.
C16_FavouritesFilters ==
    \A A \in Users, viewer \in Users :
        LET feed == get_favourites_list(A, viewer, None, None, <<>>)
        IN  /\ \A k \in FavKinds :
                  /\ get_favourites_list(A, viewer, k, None, <<>>)
                        = {i \in feed : i.type = k}
                  /\ ( /\ <<A, k>> \in fav_votes
                       /\ <<A, k>> \in fav_watches
                       /\ can_view(viewer, k) ) =>
                        Cardinality(get_favourites_list(A, viewer, k, None, <<>>)) = 2
            /\ get_favourites_list(A, viewer, "unknown", None, <<>>) = {}
            /\ \A a \in {"vote", "watch"} :
                  get_favourites_list(A, viewer, None, a, <<>>)
                      = {i \in feed : i.action = a}
            /\ \A qc \in QCases :
                  get_favourites_list(A, viewer, None, None, qc[1])
                      = {i \in feed : i.type \in qc[2]}

\* All four entities are voted and watched by u1 and seen by u2; q = "is" leaves
\* the two entries of the issue.
C16_Witness ==
    /\ \A k \in FavKinds : <<"u1", k>> \in fav_votes /\ <<"u1", k>> \in fav_watches
    /\ Cardinality(get_favourites_list("u1", "u2", None, None, <<>>)) = 8
    /\ get_favourites_list("u1", "u2", None, None, <<"I", "S">>)
          = {[type |-> "issue", action |-> "vote"],
             [type |-> "issue", action |-> "watch"]}
    /\ get_favourites_list("u1", "u2", None, None, <<"x">>) = {}

\* C17: an item is in the feed a viewer gets only if the project is public or
\* the view permission of the item's kind is granted by the role of the viewer's
\* membership or by the project's anonymous permissions, and every favourite of
\* the user that passes this gate is in the feed.  With the four entities voted
\* in a private project: no anonymous grants and no membership give 0 items, a
\* membership granting the four view permissions gives 4, and anonymous grants
\* of the four give the non-member 4.
C17_FavouritesPermissionGate ==
    \A A \in Users, viewer \in Users :
        LET feed == get_favourites_list(A, viewer, None, None, <<>>)
            granted == RolePermissions(viewer) \cup anon_permissions
            voted == {k \in FavKinds : <<A, k>> \in fav_votes}
            watching == {k \in FavKinds : <<A, k>> \in fav_watches}
        IN  /\ \A i \in feed : ~is_private \/ ViewPermission[i.type] \in granted
            /\ \A k \in FavKinds :
                  (~is_private \/ ViewPermission[k] \in granted) =>
                      /\ k \in voted => [type |-> k, action |-> "vote"] \in feed
                      /\ k \in watching => [type |-> k, action |-> "watch"] \in feed
            /\ (is_private /\ voted = FavKinds /\ watching = {}) =>
                  /\ (anon_permissions = {} /\ role_permissions[viewer] = <<>>)
                        => Cardinality(feed) = 0
                  /\ role_permissions[viewer] = <<Perms>> => Cardinality(feed) = 4
                  /\ anon_permissions = Perms => Cardinality(feed) = 4

\* The project is private and grants the view permissions anonymously; u2 has no
\* membership and sees the four entities u1 voted for.
C17_Witness ==
    /\ is_private
    /\ anon_permissions = Perms
    /\ role_permissions["u2"] = <<>>
    /\ \A k \in FavKinds : <<"u1", k>> \in fav_votes
    /\ fav_watches = {}
    /\ Cardinality(get_favourites_list("u1", "u2", None, None, <<>>)) = 4

(***************************************************************************)
(* Properties of related people and notifications.                         *)
(***************************************************************************)
\* C18: for the project and for the task, get_related_people is exactly the
\* owner, the assignee when there is one, and the watchers, less every inactive
\* and every system user, owner and assignee included; the owner is in it
\* without being a watcher.
C18_RelatedPeople ==
    \A ref \in Refs :
        LET people == get_related_people(watched, notify_policies, ref)
            owner == IF obj_owner[ref] = None THEN {} ELSE {obj_owner[ref]}
            assignee == IF IsProject(ref) \/ assigned_to = None
                        THEN {} ELSE {assigned_to}
            watchers == get_watchers(watched, notify_policies, ref)
        IN  /\ people = {u \in owner \cup assignee \cup watchers :
                            user_state[u] = "active"}
            /\ \A u \in owner :
                  (user_state[u] = "active" /\ u \notin watchers) => u \in people

\* The project's owner is active and no watcher, the other user watches the
\* project and is a system user; the task has an inactive assignee.
C18_Witness ==
    /\ obj_owner[ProjectRef] = "u1"
    /\ user_state["u1"] = "active"
    /\ "u1" \notin get_watchers(watched, notify_policies, ProjectRef)
    /\ "u2" \in get_watchers(watched, notify_policies, ProjectRef)
    /\ user_state["u2"] = "system"
    /\ assigned_to = "u2"
    /\ get_related_people(watched, notify_policies, ProjectRef) = {"u1"}
    /\ get_related_people(watched, notify_policies, TaskRef) = {"u1"}

\* C19: nobody in an entity's get_related_people, the set the notifications
\* fan out to, has the notify level ignore for the project of the entity,
\* whether owner, assignee or watcher.
C19_NoIgnoringUserRelated ==
    \A ref \in Refs :
        \A u \in get_related_people(watched, notify_policies, ref) :
            notify_policies[<<ProjectRef, u>>] # "ignore"

Listed(view, ref) ==
    IF view \in {"voter", "voters"} THEN get_voters(votes_vote, ref)
    ELSE get_watchers(watched, notify_policies, ref)

\* C21: a permitted voters (watchers) read of an object R answers not found when
\* R does not exist and when the user asked for is not a voter (watcher) of R,
\* answers with that user when they are one, and lists exactly the users with a
\* vote (watch) on R; a read changes nothing but the answer.
C21_VotersWatchersReads ==
    [][answer' # answer =>
          LET a == answer'
              one == a.view \in {"voter", "watcher"}
          IN  /\ UNCHANGED <<votevars, membervars, tmplvars, favvars, peoplevars, exists>>
              /\ a.ref \notin exists => a.status = "NotFound"
              /\ (a.ref \in exists /\ a.status # "Forbidden") =>
                    IF one
                    THEN IF a.pk \in Listed(a.view, a.ref)
                         THEN a.status = "Ok" /\ a.data = {a.pk}
                         ELSE a.status = "NotFound" /\ a.data = {}
                    ELSE a.status = "Ok" /\ a.data = Listed(a.view, a.ref)]_vars

\* A user who exists but has no vote on the task was asked for among its voters
\* while the other user has voted, and the answer was not found.
C21_Witness ==
    /\ answer.view = "voter"
    /\ answer.ref = TaskRef
    /\ TaskRef \in exists
    /\ answer.pk = "u2"
    /\ answer.status = "NotFound"
    /\ get_voters(votes_vote, TaskRef) = {"u1"}

\* C22: in every reachable state each Vote row and each watch (a Watched row,
\* or a notify policy of a project) refers to an object that exists.
C22_NoDanglingReference ==
    /\ \A k \in DOMAIN votes_vote : votes_vote[k] > 0 => k[1] \in exists
    /\ \A k \in DOMAIN watched : watched[k] > 0 => k[1] \in exists
    /\ \A k \in DOMAIN notify_policies : notify_policies[k] # NoRow => k[1] \in exists

(***************************************************************************)
(* Properties of the permission check.                                     *)
(***************************************************************************)
\* C23: in upvote, downvote, watch and unwatch the permission check comes before
\* the store is touched: a handler that has not passed it has staged nothing, the
\* step of the check changes no table, and a refused request answers Forbidden
\* with every Vote, Votes, Watched and notify policy row as it was.
C23_CheckBeforeStore ==
    [][\A p \in Workers :
          /\ pc[p] \in {"idle", "check"} => tx[p] = NoTx
          /\ (pc[p] = "idle" /\ pc'[p] # "idle") =>
                pc'[p] = "check" /\ tx'[p] = NoTx /\ tables' = tables
          /\ (pc[p] = "check" /\ pc'[p] # "check") =>
                /\ tables' = tables
                /\ tx'[p] = NoTx
                /\ pc'[p] \in {"call", "idle"}
                /\ pc'[p] = "idle" => last'.response = "Forbidden"
          /\ (last' # last /\ last'.response = "Forbidden") =>
                tables' = tables /\ last'.before = last'.after]_vars

\* A watch request was refused while the other user watches the same object.
C23_Witness ==
    /\ last.op = "watch"
    /\ last.response = "Forbidden"
    /\ ~last.after.is_watched
    /\ last.after.watchers # {}

(***************************************************************************)
(* Properties of the defaults apply_to_project resolves.                   *)
(***************************************************************************)
\* C24: when apply_to_project(P) completes, for each taxonomy whose list in the
\* template is not empty P's default is a row of P, not of another project, named
\* as the template's default_options name it; for each taxonomy whose list is
\* empty P's default stays what it was.
C24_DefaultsResolvedInProject ==
    [][(tphase = "loaded" /\ tphase' = "applied") =>
          \A t \in Taxonomies :
              LET k == <<ttarget', t>>
              IN  IF template.snapshot[t] # {}
                  THEN /\ defaults'[k] = template.default_options[t]
                       /\ defaults'[k] \in rows'[k]
                       /\ default_owner'[k] = ttarget'
                  ELSE /\ defaults'[k] = defaults[k]
                       /\ default_owner'[k] = default_owner[k]]_vars

\* The template was applied to a project that had a default of its own in a
\* taxonomy the template has no rows for, and got a default in another taxonomy
\* by a name that a row of the source project has too.
C24_Witness ==
    /\ tphase = "applied"
    /\ ttarget = Target
    /\ template.snapshot["points"] = {}
    /\ defaults[<<Target, "points">>] = OwnName
    /\ \E t \in Taxonomies :
          /\ template.snapshot[t] # {}
          /\ defaults[<<Target, t>>] \in rows[<<Source, t>>]
          /\ default_owner[<<Target, t>>] = Target

(***************************************************************************)
(* Properties of the vote attributes across objects.                       *)
(***************************************************************************)
\* A second task, and the Vote table with rows for it: n rows for each user.
OtherTask == <<"task", 2>>
WithOtherTask(vv, n) ==
    [k \in (Refs \cup {OtherTask}) \X Users |->
        IF k \in DOMAIN vv THEN vv[k] ELSE n]

\* The objects whose Vote or Votes rows a step changes.
VotesChanged ==
    {ref \in Refs :
        \/ \E u \in Users : votes_vote'[<<ref, u>>] # votes_vote[<<ref, u>>]
        \/ {r \in votes_votes' : r[1] = ref} # {r \in votes_votes : r[1] = ref}}

\* C25: the votes_count and is_voted attached to an object depend only on the
\* Votes and Vote rows of its own content type and id: a step that changes the
\* rows of the object of the other type with the same id leaves them as they
\* were, and so do rows of another object of the same type.
C25_VoteAttrsOwnRowsOnly ==
    [][(votes_vote' # votes_vote \/ votes_votes' # votes_votes) =>
          \A ref \in Refs \ VotesChanged, u \in Viewers :
              /\ attach_votes_attrs_to_queryset(votes_vote', votes_votes', u, ref)
                    = attach_votes_attrs_to_queryset(votes_vote, votes_votes, u, ref)
              /\ \A n \in {0, 1} :
                    attach_votes_attrs_to_queryset(
                        WithOtherTask(votes_vote', n),
                        votes_votes' \cup {<<OtherTask, n>>}, u, ref)
                    = attach_votes_attrs_to_queryset(votes_vote, votes_votes, u, ref)]_vars

\* A vote on the project was just stored, and the task, which has the same id,
\* has a vote count of its own.
C25_Witness ==
    /\ last.op = "upvote" /\ last.ref = ProjectRef /\ last.response = "Ok"
    /\ last.before.votes = 0 /\ last.after.votes = 1
    /\ ProjectRef[2] = TaskRef[2]
    /\ attach_votes_count_to_queryset(votes_votes, TaskRef) = 1
    /\ attach_votes_count_to_queryset(votes_votes, ProjectRef) = 1

\* C26: a send_notifications call with no history, or with _not_notify set,
\* changes nothing: no watcher is added and nothing is sent; any other call
\* analizes the mentions once, leaving each mentioned user a watcher, and sends
\* once.
C26_NotifyOnlyWithHistory ==
    [][notified' # notified =>
          IF ~notified'.history \/ notified'._not_notify
          THEN /\ watched' = watched
               /\ notify_policies' = notify_policies
               /\ notified'.analized = 0
               /\ notified'.sent = 0
               /\ notified'.recipients = {}
               /\ notified'.result # "sent"
          ELSE /\ notified'.analized = 1
               /\ notified'.sent = 1
               /\ notified'.result = "sent"
               /\ notified'.mentions \subseteq
                     get_watchers(watched', notify_policies', notified'.ref)]_vars

\* A call with a history that mentions a new user was made under _not_notify,
\* and the user is no watcher.
C26_Witness ==
    /\ notified.history
    /\ notified._not_notify
    /\ notified.result = "not_notify"
    /\ get_watchers(watched, notify_policies, notified.ref) = {}
    /\ \E u \in Users : user_state[u] = "active" /\ u # obj_owner[notified.ref]

ComputableRoles == {role \in ProjectRoles : computable[role] = "computable"}

\* C28: after update_role_points() on a project with a computable role, every
\* user story of the project has one RolePoints row for each computable role and
\* none for any other role; the rows the call created point to a Points row of
\* the project whose value is None, and the rows of computable roles that were
\* there before are kept with their points.
C28_RolePointsPerComputableRole ==
    [][(urp' # urp /\ urp'.user_stories = <<>> /\ ComputableRoles # {}) =>
          /\ \A us \in UserStories, role \in ComputableRoles :
                Cardinality({rp \in role_points' : rp[1] = us /\ rp[2] = role}) = 1
          /\ \A rp \in role_points' : rp[2] \in ComputableRoles
          /\ \A rp \in role_points' \ role_points :
                rp[3] \in points' /\ PointsValueIsNone(rp[3])
          /\ \A rp \in role_points :
                rp[2] \in ComputableRoles => rp \in role_points']_vars

\* A call left a user story with a row it had before, of value 1, for one
\* computable role and a created row for the other, while the rows of a role of
\* another project are gone.
C28_Witness ==
    /\ urp.tick
    /\ urp.user_stories = <<>>
    /\ ComputableRoles = ProjectRoles
    /\ <<"us1", "r1", "one">> \in role_points
    /\ <<"us1", "r2", "?">> \in role_points
    /\ <<"us2", "r1", "?">> \in role_points
    /\ \A rp \in role_points : rp[2] # ForeignRole

\* C29: update_role_points is idempotent: the same call made again directly
\* after a call would create and delete no RolePoints row and create no Points
\* row; a call creates a null-valued Points row only when the project has none,
\* and creates and deletes nothing when the project has no computable role.
C29_UpdateRolePointsIdempotent ==
    [][urp' # urp =>
          LET again == update_role_points_result(computable', points', role_points',
                                                 urp'.user_stories)
          IN  /\ again.role_points = role_points'
              /\ again.points = points'
              /\ points' # points =>
                    /\ \A name \in points : ~PointsValueIsNone(name)
                    /\ Cardinality(points' \ points) = 1
                    /\ \A name \in points' \ points : PointsValueIsNone(name)
              /\ ComputableRoles = {} =>
                    points' = points /\ role_points' = role_points]_vars

\* A call was made on a project that had a null-valued Points row already, and
\* created RolePoints rows with it and no Points row.
C29_Witness ==
    /\ urp.tick
    /\ points = {"one", "null"}
    /\ \E rp \in role_points : rp[3] = "null"

====
